---- MODULE Spec2Model ----
(***************************************************************************)
(* Model of jr_py_writer.handler_file.FileHandler: a log writer that       *)
(* buffers messages, writes each dispatched message to every configured    *)
(* path, rotates files by size and retries failing writes.                 *)
(*                                                                         *)
(* Text is a sequence of one-character strings, so that strip(), the line  *)
(* structure of a file and byte counts are computed, not assumed.  The     *)
(* file system is a map from file names <<path, i>> to contents, where     *)
(* i = 0 is the path itself and i >= 1 its rotated sibling stem_i.ext.     *)
(***************************************************************************)
EXTENDS Integers, Sequences, FiniteSets, TLC

VARIABLES
    file_paths,       \* _file_paths: sequence of configured paths
    write_mode,       \* _write_mode: "a", "w", "r", "r+", "w+"
    retry_limit,      \* _retry_limit
    retry_delay,      \* _retry_delay, a rational <<num, den>>
    backoff_factor,   \* _backoff_factor, a rational <<num, den>>
    max_file_size,    \* _max_file_size
    max_rotation,     \* _max_rotation
    max_buffer_size,  \* _max_buffer_size
    use_write_flush,  \* _use_write_flush
    temp_sync_pool,   \* _temp_sync_pool: path -> handle id
    buffer,           \* _buffer (StringIO) content
    buffer_pos,       \* _buffer position: what tell() returns
    threads,          \* the caller threads inside log: where each one stands
    threadpool,       \* _threadpool: index into pools
    pools,            \* every ThreadPoolExecutor created so far: its _shutdown flag
    fs,               \* the file system: file name -> content
    handles,          \* every file object opened so far
    cpu_count,        \* os.cpu_count() of the host
    last,             \* outcome of the last operation (observation only)
    accepted,         \* the messages whose log call returned, in call order (observation only)
    nops              \* number of operations performed (bounds the run)

config == <<file_paths, write_mode, retry_limit, retry_delay, backoff_factor,
            max_file_size, max_rotation, max_buffer_size, use_write_flush>>

\* every setting but the path list
settings == <<write_mode, retry_limit, retry_delay, backoff_factor,
              max_file_size, max_rotation, max_buffer_size, use_write_flush>>

vars == <<file_paths, write_mode, retry_limit, retry_delay, backoff_factor,
          max_file_size, max_rotation, max_buffer_size, use_write_flush,
          temp_sync_pool, buffer, buffer_pos, threads, threadpool, pools, fs,
          handles, cpu_count, last, accepted, nops>>

----------------------------------------------------------------------------
(* Bounds of the model *)

MaxOps == 4
MaxFault == 4

----------------------------------------------------------------------------
(* Text *)

NL == "\n"

IsSpace(c) == c \in {" ", NL}

RECURSIVE LStrip(_)
LStrip(s) ==
    IF s = <<>> THEN s
    ELSE IF IsSpace(Head(s)) THEN LStrip(Tail(s)) ELSE s

RECURSIVE RStrip(_)
RStrip(s) ==
    IF s = <<>> THEN s
    ELSE IF IsSpace(s[Len(s)]) THEN RStrip(SubSeq(s, 1, Len(s) - 1)) ELSE s

Strip(s) == RStrip(LStrip(s))

\* a message that is not a str (an int, None, ...)
NotAString == <<"#obj">>

IsStr(m) == \A i \in 1..Len(m) : m[i] # "#obj"

\* len(message.encode("utf-8")) for the one-byte characters of the model
ByteLen(s) == Len(s)

----------------------------------------------------------------------------
(* Maps with a growing domain (dict, directory) *)

EmptyMap == [x \in {} |-> 0]

Put(f, k, v) == (k :> v) @@ f

Del(f, k) == [x \in (DOMAIN f) \ {k} |-> f[x]]

----------------------------------------------------------------------------
(* Rationals for retry_delay and backoff_factor *)

RECURSIVE IntPow(_, _)
IntPow(b, e) == IF e = 0 THEN 1 ELSE b * IntPow(b, e - 1)

RatEq(a, b) == a[1] * b[2] = b[1] * a[2]

RatPos(a) == a[1] > 0

\* a * b ** e
RatMulPow(a, b, e) == <<a[1] * IntPow(b[1], e), a[2] * IntPow(b[2], e)>>

---------------------------------------------------------------------------------------------------------------------------------------------------
(* The world a write works on: the file system, the file objects, the      *)
(* pool and the buffer, and what the operation has done so far.            *)

NoErr == "none"

World(f, h, p, b) ==
    [fs |-> f, handles |-> h, pool |-> p, buf |-> b, err |-> NoErr, ret |-> <<>>,
     sent |-> <<>>, attempts |-> EmptyMap, sleeps |-> <<>>, rotated |-> {},
     via |-> "none", caller |-> FALSE]

\* an exception is raised (the first one stands)
Fail(w, e) == IF w.err = NoErr THEN [w EXCEPT !.err = e] ELSE w

\* except Exception as e: raise <typed error> from e
Raise(w, e) == IF w.err = NoErr THEN w ELSE [w EXCEPT !.err = e]

Exists(w, name) == name \in DOMAIN w.fs

\* path.with_name(f"{path.stem}_{i}{path.suffix}")
Rotated(path, i) == <<path, i>>

Live(path) == <<path, 0>>

\* an inode that has lost its name
Orphan == <<0, 0>>

FileData(w, name) == IF name \in DOMAIN w.fs THEN w.fs[name] ELSE <<>>

\* the bytes a file object holds are written at its position
Overwrite(data, pos, s) ==
    SubSeq(data, 1, pos) \o s \o SubSeq(data, pos + Len(s) + 1, Len(data))

FlushAt(f, data) == IF f.append THEN Len(data) ELSE f.pos

FlushInto(w, h, f, data, at) ==
    [w EXCEPT
        !.fs = IF f.name \in DOMAIN w.fs
               THEN Put(w.fs, f.name, Overwrite(data, at, f.pending))
               ELSE @,
        !.handles[h] = [f EXCEPT !.pending = <<>>, !.pos = at + Len(f.pending)]]

\* a flush that leaves the data in the file object
FlushHandleLater(w, h) == w

\* file.flush()
FlushHandle(w, h) ==
    IF w.handles[h].closed \/ w.handles[h].pending = <<>> THEN w
    ELSE FlushInto(w, h, w.handles[h], FileData(w, w.handles[h].name),
                   FlushAt(w.handles[h], FileData(w, w.handles[h].name)))

MarkClosed(w, h) == [w EXCEPT !.handles[h].closed = TRUE]

\* file.close(): flushes, then closes
CloseHandle(w, h) == MarkClosed(FlushHandle(w, h), h)

Retarget(hs, from, to) ==
    [h \in DOMAIN hs |-> IF hs[h].name = from THEN [hs[h] EXCEPT !.name = to] ELSE hs[h]]

\* unlink: file objects open on the name keep an inode nobody can read
Unlink(w, name) ==
    [w EXCEPT !.fs = Del(@, name), !.handles = Retarget(@, name, Orphan)]

UnlinkIfExists(w, name) == IF Exists(w, name) THEN Unlink(w, name) ELSE w

MoveName(w, src, dst) ==
    [w EXCEPT !.fs = Put(Del(@, src), dst, w.fs[src]),
              !.handles = Retarget(@, src, dst)]

\* rename: replaces dst; file objects open on src follow the inode to dst
Rename(w, src, dst) == MoveName(UnlinkIfExists(w, dst), src, dst)

Truncates(mode) == mode \in {"w", "w+"}

Writable(mode) == mode # "r"

NewFile(path, mode) ==
    [name |-> Live(path), closed |-> FALSE, pending |-> <<>>, pos |-> 0,
     append |-> (mode = "a"), writable |-> Writable(mode)]

\* open(path, mode): a new file object, the last of handles
Open(w, path, mode) ==
    [w EXCEPT
        !.fs = IF Truncates(mode) \/ ~Exists(w, Live(path))
               THEN Put(@, Live(path), <<>>) ELSE @,
        !.handles = Append(@, NewFile(path, mode))]

\* path.touch()
Touch(w, path) ==
    IF Exists(w, Live(path)) THEN w ELSE [w EXCEPT !.fs = Put(@, Live(path), <<>>)]

\* path.write_text("")
Truncate(w, path) == [w EXCEPT !.fs = Put(@, Live(path), <<>>)]

_create_file(w, path) == Touch(w, path)

----------------------------------------------------------------------------
(* Rotation *)

\* a size check that counts the newline of the line to come
_check_file_size_line(w, message, path) ==
    /\ Exists(w, Live(path))
    /\ ByteLen(w.fs[Live(path)]) + ByteLen(message) + 1 > max_file_size

_check_file_size(w, message, path) ==
    /\ Exists(w, Live(path))
    /\ ByteLen(w.fs[Live(path)]) + ByteLen(message) > max_file_size

DropSlot(w, path) == [w EXCEPT !.pool = Del(@, path)]

\* a slot dropped from the pool with its file object left open
EvictOpen(w, path) ==
    IF path \in DOMAIN w.pool THEN DropSlot(w, path) ELSE w

\* close the path's file object and remove it from the pool
Evict(w, path) ==
    IF path \in DOMAIN w.pool
    THEN DropSlot(CloseHandle(w, w.pool[path]), path)
    ELSE w

ShiftOne(w, rotated_file, next_rotated_file) ==
    IF Exists(w, rotated_file)
    THEN Rename(UnlinkIfExists(w, next_rotated_file), rotated_file, next_rotated_file)
    ELSE w

\* for i in range(max_rotation - 1, 0, -1)
RECURSIVE ShiftSiblings(_, _, _)
ShiftSiblings(w, path, i) ==
    IF i < 1 THEN w
    ELSE ShiftSiblings(ShiftOne(w, Rotated(path, i), Rotated(path, i + 1)), path, i - 1)

\* a rotation that forgets to move the older siblings up
RotateChainNoShift(w, path) ==
    IF max_rotation = 0 THEN Truncate(w, path)
    ELSE Touch(Rename(UnlinkIfExists(w, Rotated(path, 1)),
                      Live(path), Rotated(path, 1)),
               path)

\* a rotation whose loop starts one index too high
RotateChainOffByOne(w, path) ==
    IF max_rotation = 0 THEN Truncate(w, path)
    ELSE Touch(Rename(UnlinkIfExists(ShiftSiblings(w, path, max_rotation),
                                     Rotated(path, 1)),
                      Live(path), Rotated(path, 1)),
               path)

RotateChain(w, path) ==
    IF max_rotation = 0 THEN Truncate(w, path)
    ELSE Touch(Rename(UnlinkIfExists(ShiftSiblings(w, path, max_rotation - 1),
                                     Rotated(path, 1)),
                      Live(path), Rotated(path, 1)),
               path)

MarkRotated(w, path) == [w EXCEPT !.rotated = @ \cup {path}]

\* file.close() has data to write and cannot write it
CloseFails(w, path, fault) ==
    /\ fault.at = "close" /\ fault.n > 0
    /\ path \in DOMAIN w.pool
    /\ ~w.handles[w.pool[path]].closed
    /\ w.handles[w.pool[path]].pending # <<>>

\* a close() that raises leaves the file object closed, its data unwritten
CloseLosing(w, h) ==
    [w EXCEPT !.handles[h].closed = TRUE, !.handles[h].pending = <<>>]

\* the first step on the file system fails (write_text, unlink, rename)
RenameFails(fault) == fault.at = "rename" /\ fault.n > 0

\* the with self._lock block of _rotate_file; whatever it raises is raised as
\* FileHandleRotateError
RotateLocked(w, path, fault) ==
    IF CloseFails(w, path, fault)
    THEN Fail(CloseLosing(w, w.pool[path]), "FileHandleRotateError")
    ELSE IF RenameFails(fault) THEN Fail(Evict(w, path), "FileHandleRotateError")
    ELSE RotateChain(MarkRotated(Evict(w, path), path), path)

_rotate_file(w, message, path, fault) ==
    IF ~_check_file_size(w, message, path) THEN w ELSE RotateLocked(w, path, fault)

----------------------------------------------------------------------------
(* Writing one message to one path *)

\* a backoff whose exponent is the number of failures, not one less
RetryDelayLate(counter) ==
    IF backoff_factor[1] # 0
    THEN RatMulPow(retry_delay, backoff_factor, counter)
    ELSE retry_delay

\* the delay slept after the counter-th failed attempt
RetryDelay(counter) ==
    IF backoff_factor[1] # 0
    THEN RatMulPow(retry_delay, backoff_factor, counter - 1)
    ELSE retry_delay

Sleep(w, counter) ==
    [w EXCEPT !.err = NoErr,
              !.sleeps = IF RatPos(retry_delay)
                         THEN Append(@, RetryDelay(counter)) ELSE @]

CountAttempt(w, path, k) == [w EXCEPT !.attempts = Put(@, path, k)]

\* a file object that puts what it is handed before what it holds
BufferWriteFront(w, h, message) ==
    [w EXCEPT !.handles[h].pending = message \o <<NL>> \o @]

BufferWrite(w, h, message) == [w EXCEPT !.handles[h].pending = @ \o message \o <<NL>>]

AfterWrite(w, h, k, fault) ==
    IF ~use_write_flush THEN w
    ELSE IF k <= fault.n /\ fault.at = "flush" THEN Fail(w, "IOError")
    ELSE FlushHandle(w, h)

\* one attempt: file.write(message + "\n"), then file.flush() if use_write_flush;
\* the first fault.n attempts fail, in the write or in the flush
Attempt(w, h, message, k, fault) ==
    IF w.handles[h].closed \/ (k <= fault.n /\ fault.at = "write")
    THEN Fail(w, "IOError")
    ELSE AfterWrite(BufferWrite(w, h, message), h, k, fault)

RECURSIVE RetryLoop(_, _, _, _, _, _)
RECURSIVE AfterAttempt(_, _, _, _, _, _)

\* a loop that gives up one failure too late
AfterAttemptOneMore(w, path, h, message, counter, fault) ==
    IF w.err = NoErr THEN w
    ELSE IF counter > retry_limit THEN [w EXCEPT !.err = "RuntimeError"]
    ELSE RetryLoop(Sleep(w, counter), path, h, message, counter, fault)

\* counter failed attempts so far
AfterAttempt(w, path, h, message, counter, fault) ==
    IF w.err = NoErr THEN w
    ELSE IF counter >= retry_limit THEN [w EXCEPT !.err = "RuntimeError"]
    ELSE RetryLoop(Sleep(w, counter), path, h, message, counter, fault)

\* for _ in range(retry_limit)
RetryLoop(w, path, h, message, counter, fault) ==
    AfterAttempt(Attempt(CountAttempt(w, path, counter + 1), h, message,
                         counter + 1, fault),
                 path, h, message, counter + 1, fault)

\* the slot is evicted a second time, unless the rotation raised
EvictRotated(w, path) == IF w.err # NoErr THEN w ELSE Evict(w, path)

RotateIfNeeded(w, message, path, fault) ==
    IF _check_file_size(w, message, path)
    THEN EvictRotated(_rotate_file(w, message, path, fault), path)
    ELSE w

\* the file object just opened goes into the pool, unless it is not writable
StoreSlot(w, path) ==
    IF ~w.handles[Len(w.handles)].writable
    THEN Fail(CloseHandle(w, Len(w.handles)), "IOError")
    ELSE [w EXCEPT !.pool = Put(@, path, Len(w.handles))]

OpenSlot(w, path) ==
    IF w.err # NoErr \/ path \in DOMAIN w.pool THEN w
    ELSE StoreSlot(Open(_create_file(w, path), path, write_mode), path)

WriteOpened(w, path, message, fault) ==
    IF w.err # NoErr THEN w
    ELSE IF retry_limit > 0
         THEN RetryLoop(w, path, w.pool[path], message, 0, fault)
         ELSE Attempt(CountAttempt(w, path, 1), w.pool[path], message, 1, fault)

_write_to_file(w, path, message, fault) ==
    WriteOpened(OpenSlot(RotateIfNeeded(w, message, path, fault), path),
                path, message, fault)

----------------------------------------------------------------------------
(* Batches of paths *)

Max(a, b) == IF a >= b THEN a ELSE b

Min(a, b) == IF a <= b THEN a ELSE b

ScaledBatchSize(data_len, bs) ==
    IF bs >= data_len THEN data_len
    ELSE IF data_len < 1000 THEN Max(bs, 1)
    ELSE IF data_len <= 10000 THEN Max(bs * 2, data_len \div 4)
    ELSE IF data_len <= 100000 THEN Max(bs * 4, data_len \div 8)
    ELSE IF data_len <= 1000000 THEN Max(bs * 8, data_len \div 16)
    ELSE IF data_len <= 10000000 THEN Max(bs * 16, data_len \div 32)
    ELSE Max(bs * 32, data_len \div 64)

_calculate_batch_size(data_len, batch_size) ==
    ScaledBatchSize(data_len, IF batch_size <= 0 THEN Max(cpu_count, 1) ELSE batch_size)

\* a loop that yields full batches only
ChunksFull(data, size) ==
    [i \in 1..(Len(data) \div size) |-> SubSeq(data, (i - 1) * size + 1, i * size)]

\* list(islice(iter_data, batch_size)) until exhausted: batch i is the next
\* size items, the last batch what is left
Chunks(data, size) ==
    [i \in 1..((Len(data) + size - 1) \div size) |->
        SubSeq(data, (i - 1) * size + 1, Min(i * size, Len(data)))]

BatchesOf(data, bs) == IF bs >= Len(data) THEN <<data>> ELSE Chunks(data, bs)

batcher(data, batch_size) ==
    BatchesOf(data, IF batch_size <= 0
                    THEN _calculate_batch_size(Len(data), batch_size)
                    ELSE batch_size)

\* the same batches, yielded inside a GCManager that waits while memory is short
batcher_with_gcmanager(data, batch_size) == batcher(data, batch_size)

----------------------------------------------------------------------------
(* The slot pool *)

InitOne(w, path) ==
    IF path \in DOMAIN w.pool THEN w
    ELSE StoreSlot(Open(_create_file(w, path), path, write_mode), path)

\* for path in self.file_paths, up to the first failure: the first half of
\* the paths, then the second
RECURSIVE InitPaths(_, _)
InitPaths(w, paths) ==
    IF paths = <<>> \/ w.err # NoErr THEN w
    ELSE IF Len(paths) = 1 THEN InitOne(w, Head(paths))
    ELSE InitPaths(InitPaths(w, SubSeq(paths, 1, Len(paths) \div 2)),
                   SubSeq(paths, Len(paths) \div 2 + 1, Len(paths)))

_init_sync_pool(w) ==
    IF file_paths = <<>> THEN w
    ELSE Raise(InitPaths(w, file_paths), "FileHandlerSyncPoolInitError")

_ensure_sync_pool(w) == IF DOMAIN w.pool = {} THEN _init_sync_pool(w) ELSE w

RECURSIVE ClosePaths(_, _)
ClosePaths(w, paths) ==
    IF paths = {} THEN w
    ELSE ClosePaths(Evict(w, CHOOSE p \in paths : TRUE),
                    paths \ {CHOOSE p \in paths : TRUE})

clear_sync_pool(w) == IF DOMAIN w.pool = {} THEN w ELSE ClosePaths(w, DOMAIN w.pool)

RECURSIVE FlushPaths(_, _)
FlushPaths(w, paths) ==
    IF paths = {} \/ w.err # NoErr THEN w
    ELSE FlushPaths(FlushHandle(w, w.pool[CHOOSE p \in paths : TRUE]),
                    paths \ {CHOOSE p \in paths : TRUE})

writer_force_flush(w) == IF DOMAIN w.pool = {} THEN w ELSE FlushPaths(w, DOMAIN w.pool)

----------------------------------------------------------------------------
(* The buffer *)

\* a read of the buffer that leaves it as it is
_get_buffer_message_keep(w) == [w EXCEPT !.ret = Strip(w.buf)]

_get_buffer_message(w) == [w EXCEPT !.ret = Strip(w.buf), !.buf = <<>>]

\* a drain that starts the emptied buffer with the message in hand
_write_to_buffer_keep(w, message) ==
    IF Len(w.buf) + ByteLen(message) > max_buffer_size
    THEN [_get_buffer_message(w) EXCEPT !.buf = message \o <<NL>>]
    ELSE [w EXCEPT !.buf = @ \o message \o <<NL>>, !.ret = <<>>]

\* a buffer that also hands back the message it has just taken
_write_to_buffer_through(w, message) ==
    IF Len(w.buf) + ByteLen(message) > max_buffer_size
    THEN _get_buffer_message(w)
    ELSE [w EXCEPT !.buf = @ \o message \o <<NL>>, !.ret = message]

_write_to_buffer(w, message) ==
    IF Len(w.buf) + ByteLen(message) > max_buffer_size
    THEN _get_buffer_message(w)
    ELSE [w EXCEPT !.buf = @ \o message \o <<NL>>, !.ret = <<>>]

----------------------------------------------------------------------------
(* Dispatch of one message to every configured path *)

NoFault == [path |-> 0, n |-> 0, at |-> "write"]

FaultFor(fault, path) == IF fault.path = path THEN fault ELSE NoFault

\* self._threadpool._shutdown
Shutdown == pools[threadpool]

Sent(w, message) == [w EXCEPT !.sent = Append(@, message)]

\* the paths of one batch, one after the other, up to the first failure: the
\* first half of the batch, then the second
RECURSIVE _log_batch(_, _, _, _)
_log_batch(w, message, path_batch, fault) ==
    IF path_batch = <<>> \/ w.err # NoErr THEN w
    ELSE IF Len(path_batch) = 1
         THEN _write_to_file(w, Head(path_batch), message,
                             FaultFor(fault, Head(path_batch)))
    ELSE _log_batch(_log_batch(w, message,
                               SubSeq(path_batch, 1, Len(path_batch) \div 2), fault),
                    message,
                    SubSeq(path_batch, Len(path_batch) \div 2 + 1, Len(path_batch)),
                    fault)

KeepErr(w, e) == IF e # NoErr THEN [w EXCEPT !.err = e] ELSE w

\* every submitted batch runs, whatever the others do; the first error is raised
RECURSIVE RunBatches(_, _, _, _)
RunBatches(w, message, batches, fault) ==
    IF batches = <<>> THEN w
    ELSE IF w.err # NoErr
         THEN KeepErr(RunBatches([w EXCEPT !.err = NoErr], message, batches, fault),
                      w.err)
    ELSE IF Len(batches) = 1 THEN _log_batch(w, message, Head(batches), fault)
    ELSE RunBatches(RunBatches(w, message,
                               SubSeq(batches, 1, Len(batches) \div 2), fault),
                    message,
                    SubSeq(batches, Len(batches) \div 2 + 1, Len(batches)), fault)

\* await each batch in turn, up to the first failure
RECURSIVE AwaitBatches(_, _, _, _)
AwaitBatches(w, message, batches, fault) ==
    IF batches = <<>> \/ w.err # NoErr THEN w
    ELSE IF Shutdown THEN Fail(w, "RuntimeError")
    ELSE IF Len(batches) = 1 THEN _log_batch(w, message, Head(batches), fault)
    ELSE AwaitBatches(AwaitBatches(w, message,
                                   SubSeq(batches, 1, Len(batches) \div 2), fault),
                      message,
                      SubSeq(batches, Len(batches) \div 2 + 1, Len(batches)), fault)

BatchLimit == 50

GcLimit == 1000

\* the branch the dispatch takes is noted in the world
Via(w, branch) == [w EXCEPT !.via = branch]

\* the executor runs the batches, if it takes them
Submit(w, message, batches, fault) ==
    IF Shutdown THEN Fail(w, "RuntimeError")
    ELSE RunBatches(w, message, batches, fault)

\* if len > 50 ... elif len > 1000 ... else: the branches in the order written
_writer_handler(w, message, fault) ==
    IF Len(file_paths) > BatchLimit
    THEN Submit(Via(Sent(w, message), "batcher"), message,
                batcher(file_paths, -1), fault)
    ELSE IF Len(file_paths) > GcLimit
    THEN Submit(Via(Sent(w, message), "batcher_with_gcmanager"), message,
                batcher_with_gcmanager(file_paths, -1), fault)
    ELSE _log_batch(Via(Sent(w, message), "loop"), message, file_paths, fault)

_async_writer(w, message, fault) ==
    IF Shutdown THEN Fail(w, "RuntimeError")
    ELSE _log_batch(w, message, file_paths, fault)

_async_writer_handler(w, message, fault) ==
    IF Len(file_paths) > BatchLimit
    THEN AwaitBatches(Via(Sent(w, message), "batcher"), message,
                      batcher(file_paths, -1), fault)
    ELSE IF Len(file_paths) > GcLimit
    THEN AwaitBatches(Via(Sent(w, message), "batcher_with_gcmanager"), message,
                      batcher_with_gcmanager(file_paths, -1), fault)
    ELSE _async_writer(Via(Sent(w, message), "loop"), message, fault)

----------------------------------------------------------------------------
(* The public operations, as functions of the world *)

\* a check that forgets message.strip()
ValidMessageUnstripped(message) == IsStr(message) /\ message # <<>>

ValidMessage(message) == IsStr(message) /\ Strip(message) # <<>>

LogBuffered(w, fault) ==
    IF w.ret # <<>> THEN _writer_handler(w, w.ret, fault) ELSE w

LogReady(w, message, fault) ==
    IF w.err # NoErr THEN w
    ELSE IF max_buffer_size > 0
         THEN LogBuffered(_write_to_buffer(w, message), fault)
         ELSE _writer_handler(w, message, fault)

log(w, message, fault) ==
    IF ~ValidMessage(message) THEN Fail(w, "FileHandlerWriteError")
    ELSE IF file_paths = <<>> THEN w
    ELSE Raise(LogReady(_ensure_sync_pool(w), message, fault), "FileHandlerWriteError")

AsyncLogBuffered(w, fault) ==
    IF w.ret # <<>> THEN _async_writer_handler(w, w.ret, fault) ELSE w

AsyncLogReady(w, message, fault) ==
    IF w.err # NoErr THEN w
    ELSE IF max_buffer_size > 0
         THEN AsyncLogBuffered(_write_to_buffer(w, message), fault)
         ELSE _async_writer_handler(w, message, fault)

\* what the coroutine calls without run_in_executor runs on the thread of the
\* event loop: noted if it created, opened, wrote, flushed or closed a file
OnCaller(before, after) ==
    [after EXCEPT !.caller = @ \/ after.fs # before.fs
                               \/ after.handles # before.handles]

async_log(w, message, fault) ==
    IF ~ValidMessage(message) THEN Fail(w, "FileHandlerAsyncWriteError")
    ELSE IF file_paths = <<>> THEN w
    ELSE Raise(AsyncLogReady(OnCaller(w, _init_sync_pool(w)), message, fault),
               "FileHandlerAsyncWriteError")

FlushFiles(w) == IF w.err # NoErr THEN w ELSE writer_force_flush(w)

\* a flush that drains the buffer and hands it to nobody
DrainBufferDiscard(w, fault) ==
    IF Len(w.buf) > 0 THEN _get_buffer_message(w) ELSE w

DrainBuffer(w, fault) ==
    IF Len(w.buf) > 0 THEN LogBuffered(_get_buffer_message(w), fault) ELSE w

buffer_force_flush(w, fault) ==
    Raise(FlushFiles(DrainBuffer(w, fault)), "FileHandlerBufferError")

\* a teardown that leaves the slots as they are
ReleaseNothing(w) == w

\* self.clear_sync_pool(), reached only if nothing was raised before
ReleaseSlots(w) == IF w.err # NoErr THEN w ELSE clear_sync_pool(w)

\* clear_all, up to the point where the path list is cleared
clear_all(w, fault) == ReleaseSlots(buffer_force_flush(w, fault))

\* __exit__: the same steps (the path list is cleared before the slots)
__exit__(w, fault) == ReleaseSlots(buffer_force_flush(w, fault))

\* __aexit__: flushes the buffer, never closes the slots
__aexit__(w, fault) == OnCaller(w, buffer_force_flush(w, fault))

-----
(* The state machine *)

Now == World(fs, handles, temp_sync_pool, buffer)

Outcome(op, m, fault, w) ==
    [op |-> op, after |-> IF op = "init" THEN "none" ELSE last.op,
     msg |-> m, fault |-> fault, err |-> w.err, sent |-> w.sent,
     attempts |-> w.attempts, sleeps |-> w.sleeps, rotated |-> w.rotated,
     via |-> w.via, caller |-> w.caller]

Commit(op, m, fault, w) ==
    /\ fs' = w.fs
    /\ handles' = w.handles
    /\ temp_sync_pool' = w.pool
    /\ buffer' = w.buf
    /\ buffer_pos' = Len(w.buf)
    /\ threads' = threads
    /\ last' = Outcome(op, m, fault, w)
    /\ accepted' = IF op \in {"log", "async_log"} /\ w.err = NoErr
                   THEN Append(accepted, m) ELSE accepted
    /\ nops' = nops + 1

Log(m, fault) ==
    /\ nops < MaxOps
    /\ Commit("log", m, fault, log(Now, m, fault))
    /\ UNCHANGED <<config, threadpool, pools, cpu_count>>

AsyncLog(m, fault) ==
    /\ nops < MaxOps
    /\ Commit("async_log", m, fault, async_log(Now, m, fault))
    /\ UNCHANGED <<config, threadpool, pools, cpu_count>>

BufferForceFlush(fault) ==
    /\ nops < MaxOps
    /\ Commit("buffer_force_flush", <<>>, fault, buffer_force_flush(Now, fault))
    /\ UNCHANGED <<config, threadpool, pools, cpu_count>>

WriterForceFlush ==
    /\ nops < MaxOps
    /\ Commit("writer_force_flush", <<>>, NoFault, writer_force_flush(Now))
    /\ UNCHANGED <<config, threadpool, pools, cpu_count>>

ClearSyncPool ==
    /\ nops < MaxOps
    /\ Commit("clear_sync_pool", <<>>, NoFault, clear_sync_pool(Now))
    /\ UNCHANGED <<config, threadpool, pools, cpu_count>>

force_shutdown == IF ~pools[threadpool] THEN [pools EXCEPT ![threadpool] = TRUE] ELSE pools

ForceShutdown ==
    /\ nops < MaxOps
    /\ pools' = force_shutdown
    /\ last' = Outcome("force_shutdown", <<>>, NoFault, Now)
    /\ nops' = nops + 1
    /\ UNCHANGED <<config, threadpool, cpu_count, fs, handles, temp_sync_pool,
                   buffer, buffer_pos, threads, accepted>>

\* a resume that hands back an executor in the state of the one in place
resume_pool_stale == Append(pools, pools[threadpool])

\* the executor in place is shut down only if it is shut down already
resume_pool == Append(pools, FALSE)

ResumePool ==
    /\ nops < MaxOps
    /\ pools' = resume_pool
    /\ threadpool' = Len(pools')
    /\ last' = Outcome("resume_pool", <<>>, NoFault, Now)
    /\ nops' = nops + 1
    /\ UNCHANGED <<config, cpu_count, fs, handles, temp_sync_pool, buffer,
                   buffer_pos, threads, accepted>>

\* the end of a teardown: self._file_paths = [], then the executor is shut
\* down; neither is reached once an exception left the method
TearDown(op, fault, w) ==
    /\ nops < MaxOps
    /\ Commit(op, <<>>, fault, w)
    /\ file_paths' = IF w.err = NoErr THEN <<>> ELSE file_paths
    /\ pools' = IF w.err = NoErr THEN force_shutdown ELSE pools
    /\ UNCHANGED <<settings, threadpool, cpu_count>>

ClearAll(fault) == TearDown("clear_all", fault, clear_all(Now, fault))

Exit(fault) == TearDown("__exit__", fault, __exit__(Now, fault))

AExit(fault) == TearDown("__aexit__", fault, __aexit__(Now, fault))

----------------------------------------------------------------------------
(* Construction *)

Paths(n) == [i \in 1..n |-> i]

Settings(paths, mode, rl, rd, bf, mfs, mr, mbs, uwf) ==
    [file_paths |-> paths, write_mode |-> mode, retry_limit |-> rl,
     retry_delay |-> rd, backoff_factor |-> bf, max_file_size |-> mfs,
     max_rotation |-> mr, max_buffer_size |-> mbs, use_write_flush |-> uwf]

\* __init__: the settings, an empty pool, a running executor, an empty buffer
Constructed(s, cpus) ==
    /\ file_paths = s.file_paths
    /\ write_mode = s.write_mode
    /\ retry_limit = s.retry_limit
    /\ retry_delay = s.retry_delay
    /\ backoff_factor = s.backoff_factor
    /\ max_file_size = s.max_file_size
    /\ max_rotation = s.max_rotation
    /\ max_buffer_size = s.max_buffer_size
    /\ use_write_flush = s.use_write_flush
    /\ temp_sync_pool = EmptyMap
    /\ buffer = <<>>
    /\ buffer_pos = 0
    /\ pools = <<FALSE>>
    /\ threadpool = 1
    /\ fs = EmptyMap
    /\ handles = <<>>
    /\ cpu_count = cpus
    /\ last = Outcome("init", <<>>, NoFault, World(EmptyMap, <<>>, EmptyMap, <<>>))
    /\ accepted = <<>>
    /\ nops = 0

\* a handler used by one caller at a time
Construct(s, cpus) == Constructed(s, cpus) /\ threads = <<>>

Messages == {<<"a">>, <<"b", "b">>, <<" ", "c">>}

SmallFile == 3
BigFile == 100
TinyBuffer == 1
SmallBuffer == 4
MaxRotation == 2

WriteSettings ==
    {Settings(Paths(n), "a", 0, <<0, 1>>, <<0, 1>>, mfs, mr, mbs, uwf) :
        n \in {1, 2}, mfs \in {SmallFile, BigFile}, mr \in 0..MaxRotation,
        mbs \in {0, TinyBuffer, SmallBuffer}, uwf \in BOOLEAN}

Init == \E s \in WriteSettings : Construct(s, 4)

Next ==
    \/ \E m \in Messages : Log(m, NoFault)
    \/ \E m \in Messages : AsyncLog(m, NoFault)
    \/ BufferForceFlush(NoFault)
    \/ WriterForceFlush
    \/ ClearSyncPool

Spec == Init /\ [][Next]_vars

(* Several caller threads inside log at once.  A step is what one thread     *)
(* does between two points where another thread can run: one call of a      *)
(* StringIO method, one _init_sync_pool, one _write_to_file (whose write is *)
(* made under the handler's lock).                                          *)

NumThreads == 3

NUL == "NUL"

Letters == <<"a", "b", "c", "d", "e", "f">>

\* thread t logs a message of its own, of one or two bytes
ThreadMessage(t) == [i \in 1..(1 + (t % 2)) |-> Letters[t]]

Thread(t) == [pc |-> "log", msg |-> ThreadMessage(t), ret |-> <<>>, todo |-> <<>>]

ThreadSettings ==
    {Settings(Paths(n), "a", 0, <<0, 1>>, <<0, 1>>, BigFile, 0, mbs, uwf) :
        n \in {1, 2}, mbs \in {0, TinyBuffer, SmallBuffer}, uwf \in BOOLEAN}

InitThreads ==
    /\ \E s \in ThreadSettings : Constructed(s, 4)
    /\ threads = [t \in 1..NumThreads |-> Thread(t)]

At(t, pc) == t \in DOMAIN threads /\ threads[t].pc = pc

Goto(t, pc) == threads' = [threads EXCEPT ![t].pc = pc]

\* log returns to the thread's caller
Return(t) ==
    /\ accepted' = Append(accepted, threads[t].msg)
    /\ nops' = nops + 1

\* the branch log takes once the pool is there
Buffering == IF max_buffer_size > 0 THEN "check" ELSE "dispatch"

Enter(t, pc) ==
    threads' = [threads EXCEPT ![t].pc = pc, ![t].ret = threads[t].msg,
                               ![t].todo = file_paths]

\* _ensure_sync_pool: if not self._temp_sync_pool
T_Ensure(t) ==
    /\ At(t, "log")
    /\ IF DOMAIN temp_sync_pool = {} THEN Goto(t, "init") ELSE Enter(t, Buffering)
    /\ UNCHANGED <<config, temp_sync_pool, buffer, buffer_pos, threadpool, pools,
                   fs, handles, cpu_count, last, accepted, nops>>

\* _init_sync_pool: opens the paths not in the pool by now
T_Init(t) ==
    /\ At(t, "init")
    /\ fs' = _init_sync_pool(Now).fs
    /\ handles' = _init_sync_pool(Now).handles
    /\ temp_sync_pool' = _init_sync_pool(Now).pool
    /\ Enter(t, Buffering)
    /\ UNCHANGED <<config, buffer, buffer_pos, threadpool, pools, cpu_count,
                   last, accepted, nops>>

\* _write_to_buffer: self._buffer.tell() + len(message.encode()) > max_buffer_size
T_Check(t) ==
    /\ At(t, "check")
    /\ Goto(t, IF buffer_pos + ByteLen(threads[t].msg) > max_buffer_size
               THEN "getvalue" ELSE "write")
    /\ UNCHANGED <<config, temp_sync_pool, buffer, buffer_pos, threadpool, pools,
                   fs, handles, cpu_count, last, accepted, nops>>

Nuls(n) == [i \in 1..n |-> NUL]

\* StringIO.write at the position: pads with NUL past the end, overwrites before it
WriteAt(data, pos, s) ==
    IF pos > Len(data) THEN data \o Nuls(pos - Len(data)) \o s
    ELSE Overwrite(data, pos, s)

\* self._buffer.write(message + "\n"); log returns
T_Write(t) ==
    /\ At(t, "write")
    /\ buffer' = WriteAt(buffer, buffer_pos, threads[t].msg \o <<NL>>)
    /\ buffer_pos' = buffer_pos + Len(threads[t].msg) + 1
    /\ Goto(t, "done")
    /\ Return(t)
    /\ UNCHANGED <<config, temp_sync_pool, threadpool, pools, fs, handles,
                   cpu_count, last>>

\* _get_buffer_message: self._buffer.getvalue().strip()
T_GetValue(t) ==
    /\ At(t, "getvalue")
    /\ threads' = [threads EXCEPT ![t].pc = "truncate", ![t].ret = Strip(buffer)]
    /\ UNCHANGED <<config, temp_sync_pool, buffer, buffer_pos, threadpool, pools,
                   fs, handles, cpu_count, last, accepted, nops>>

\* self._buffer.truncate(0): the position stays
T_Truncate(t) ==
    /\ At(t, "truncate")
    /\ buffer' = <<>>
    /\ Goto(t, "seek")
    /\ UNCHANGED <<config, temp_sync_pool, buffer_pos, threadpool, pools, fs,
                   handles, cpu_count, last, accepted, nops>>

\* self._buffer.seek(0); log dispatches what it was handed, if anything
T_Seek(t) ==
    /\ At(t, "seek")
    /\ buffer_pos' = 0
    /\ Goto(t, IF threads[t].ret # <<>> THEN "dispatch" ELSE "done")
    /\ IF threads[t].ret # <<>>
       THEN UNCHANGED <<accepted, nops>>
       ELSE Return(t)
    /\ UNCHANGED <<config, temp_sync_pool, buffer, threadpool, pools, fs, handles,
                   cpu_count, last>>

\* _writer_handler: the next path of the loop; log returns after the last
T_WriteFile(t) ==
    /\ At(t, "dispatch")
    /\ fs' = _write_to_file(Now, Head(threads[t].todo), threads[t].ret, NoFault).fs
    /\ handles' =
          _write_to_file(Now, Head(threads[t].todo), threads[t].ret, NoFault).handles
    /\ temp_sync_pool' =
          _write_to_file(Now, Head(threads[t].todo), threads[t].ret, NoFault).pool
    /\ threads' = [threads EXCEPT
                      ![t].todo = Tail(@),
                      ![t].pc = IF Len(threads[t].todo) = 1 THEN "done" ELSE @]
    /\ IF Len(threads[t].todo) = 1 THEN Return(t) ELSE UNCHANGED <<accepted, nops>>
    /\ UNCHANGED <<config, buffer, buffer_pos, threadpool, pools, cpu_count, last>>

AllDone == \A t \in DOMAIN threads : threads[t].pc = "done"

\* the threads are joined, then the buffer is flushed
T_Flush ==
    /\ AllDone
    /\ last.op # "buffer_force_flush"
    /\ fs' = buffer_force_flush(Now, NoFault).fs
    /\ handles' = buffer_force_flush(Now, NoFault).handles
    /\ temp_sync_pool' = buffer_force_flush(Now, NoFault).pool
    /\ buffer' = buffer_force_flush(Now, NoFault).buf
    /\ buffer_pos' = IF Len(buffer) > 0 THEN 0 ELSE buffer_pos
    /\ last' = Outcome("buffer_force_flush", <<>>, NoFault,
                       buffer_force_flush(Now, NoFault))
    /\ nops' = nops + 1
    /\ UNCHANGED <<config, threads, threadpool, pools, cpu_count, accepted>>

NextThreads ==
    \/ \E t \in 1..NumThreads :
          \/ T_Ensure(t)
          \/ T_Init(t)
          \/ T_Check(t)
          \/ T_Write(t)
          \/ T_GetValue(t)
          \/ T_Truncate(t)
          \/ T_Seek(t)
          \/ T_WriteFile(t)
    \/ T_Flush

SpecThreads == InitThreads /\ [][NextThreads]_vars

(* Threads inside the unbuffered log and inside clear_sync_pool at once,    *)
(* step by step: a step is a statement outside the handler's lock, or one   *)
(* "with self._lock" block.                                                  *)

NumRacers == 3

\* the last thread clears the pool, the others log
Racer(t) ==
    [pc |-> IF t = NumRacers THEN "clear" ELSE "log", msg |-> ThreadMessage(t),
     ret |-> <<>>, todo |-> <<>>, file |-> 0]

RaceSettings ==
    {Settings(Paths(1), "a", 0, <<0, 1>>, <<0, 1>>, mfs, mr, 0, uwf) :
        mfs \in {SmallFile, BigFile}, mr \in {0, 1}, uwf \in BOOLEAN}
    \cup {Settings(Paths(2), "a", 0, <<0, 1>>, <<0, 1>>, BigFile, 0, 0, TRUE)}

InitRace ==
    /\ \E s \in RaceSettings : Constructed(s, 4)
    /\ threads = [t \in 1..NumRacers |-> Racer(t)]

\* thread t has made a step that left the world w; an exception ends its call
Step(t, w, pc, todo, file) ==
    /\ fs' = w.fs
    /\ handles' = w.handles
    /\ temp_sync_pool' = w.pool
    /\ threads' = [threads EXCEPT ![t].pc = IF w.err # NoErr THEN "raised" ELSE pc,
                                  ![t].todo = todo, ![t].file = file]
    /\ UNCHANGED <<config, buffer, buffer_pos, threadpool, pools, cpu_count, last,
                   accepted, nops>>

\* _ensure_sync_pool: if not self._temp_sync_pool
R_Ensure(t) ==
    /\ At(t, "log")
    /\ Step(t, Now, IF DOMAIN temp_sync_pool = {} THEN "init" ELSE "dispatch",
            file_paths, 0)

\* _init_sync_pool: the next path of the loop; if path in self._temp_sync_pool
R_InitNext(t) ==
    /\ At(t, "init")
    /\ IF threads[t].todo = <<>> THEN Step(t, Now, "dispatch", file_paths, 0)
       ELSE IF Head(threads[t].todo) \in DOMAIN temp_sync_pool
            THEN Step(t, Now, "init", Tail(threads[t].todo), 0)
       ELSE Step(t, Now, "init_open", threads[t].todo, 0)

\* _init_sync_pool: self._create_file(path); file = open(path, ...)
R_InitOpen(t) ==
    /\ At(t, "init_open")
    /\ Step(t, Open(_create_file(Now, Head(threads[t].todo)),
                    Head(threads[t].todo), write_mode),
            "init_store", threads[t].todo, Len(handles) + 1)

\* _init_sync_pool: with self._lock: self._temp_sync_pool[path] = file
R_InitStore(t) ==
    /\ At(t, "init_store")
    /\ Step(t, [Now EXCEPT !.pool = Put(@, Head(threads[t].todo), threads[t].file)],
            "init", Tail(threads[t].todo), 0)

\* _write_to_file: if self._check_file_size(message, path)
R_Check(t) ==
    /\ At(t, "dispatch")
    /\ Step(t, Now,
            IF _check_file_size(Now, threads[t].msg, Head(threads[t].todo))
            THEN "rotate" ELSE "get",
            threads[t].todo, 0)

\* _write_to_file: self._rotate_file(message, path)
R_Rotate(t) ==
    /\ At(t, "rotate")
    /\ Step(t, _rotate_file(Now, threads[t].msg, Head(threads[t].todo), NoFault),
            "reinit", threads[t].todo, 0)

\* _write_to_file: with self._lock: close the path's slot and delete it
R_Reinit(t) ==
    /\ At(t, "reinit")
    /\ Step(t, Evict(Now, Head(threads[t].todo)), "get", threads[t].todo, 0)

\* _write_to_file: file = self._temp_sync_pool.get(path)
R_Get(t) ==
    /\ At(t, "get")
    /\ IF Head(threads[t].todo) \in DOMAIN temp_sync_pool
       THEN Step(t, Now, "write", threads[t].todo,
                 temp_sync_pool[Head(threads[t].todo)])
       ELSE Step(t, Now, "open", threads[t].todo, 0)

\* _write_to_file: self._create_file(path); with self._lock: file = open(...);
\* self._temp_sync_pool[path] = file
R_Open(t) ==
    /\ At(t, "open")
    /\ Step(t, StoreSlot(Open(_create_file(Now, Head(threads[t].todo)),
                              Head(threads[t].todo), write_mode),
                         Head(threads[t].todo)),
            "write", threads[t].todo, Len(handles) + 1)

\* _write_to_file: the write, with its retries, on the file object the thread holds
R_WriteFile(t) ==
    /\ At(t, "write")
    /\ Step(t,
            IF retry_limit > 0
            THEN RetryLoop(Now, Head(threads[t].todo), threads[t].file,
                           threads[t].msg, 0, NoFault)
            ELSE Attempt(CountAttempt(Now, Head(threads[t].todo), 1),
                         threads[t].file, threads[t].msg, 1, NoFault),
            IF Len(threads[t].todo) = 1 THEN "done" ELSE "dispatch",
            Tail(threads[t].todo), 0)

\* the keys of the pool, as a list
RECURSIVE Keys(_)
Keys(paths) ==
    IF paths = {} THEN <<>>
    ELSE <<CHOOSE p \in paths : \A q \in paths : p <= q>>
         \o Keys(paths \ {CHOOSE p \in paths : \A q \in paths : p <= q})

\* clear_sync_pool: if not self._temp_sync_pool: return; list(....keys())
R_Clear(t) ==
    /\ At(t, "clear")
    /\ IF DOMAIN temp_sync_pool = {} THEN Step(t, Now, "done", <<>>, 0)
       ELSE Step(t, Now, "close", Keys(DOMAIN temp_sync_pool), 0)

\* clear_sync_pool: file = self._temp_sync_pool[path]; file.flush(); file.close()
R_Close(t) ==
    /\ At(t, "close")
    /\ IF threads[t].todo = <<>> THEN Step(t, Now, "wipe", <<>>, 0)
       ELSE IF Head(threads[t].todo) \notin DOMAIN temp_sync_pool
            THEN Step(t, Fail(Now, "FileHandlerSyncPoolCleanupError"), "close",
                      threads[t].todo, 0)
       ELSE Step(t, CloseHandle(Now, temp_sync_pool[Head(threads[t].todo)]), "pop",
                 threads[t].todo, temp_sync_pool[Head(threads[t].todo)])

\* clear_sync_pool: finally: self._temp_sync_pool.pop(path, None)
R_Pop(t) ==
    /\ At(t, "pop")
    /\ Step(t, IF Head(threads[t].todo) \in DOMAIN temp_sync_pool
               THEN DropSlot(Now, Head(threads[t].todo)) ELSE Now,
            "close", Tail(threads[t].todo), 0)

\* clear_sync_pool: with self._lock: self._temp_sync_pool.clear()
R_Wipe(t) ==
    /\ At(t, "wipe")
    /\ Step(t, [Now EXCEPT !.pool = EmptyMap], "done", <<>>, 0)

NextRace ==
    \E t \in 1..NumRacers :
        \/ R_Ensure(t)
        \/ R_InitNext(t)
        \/ R_InitOpen(t)
        \/ R_InitStore(t)
        \/ R_Check(t)
        \/ R_Rotate(t)
        \/ R_Reinit(t)
        \/ R_Get(t)
        \/ R_Open(t)
        \/ R_WriteFile(t)
        \/ R_Clear(t)
        \/ R_Close(t)
        \/ R_Pop(t)
        \/ R_Wipe(t)

SpecRace == InitRace /\ [][NextRace]_vars

(* Every write mode, with the slots closed and reopened between writes *)

Modes == {"a", "w", "r", "r+", "w+"}

ModeSettings ==
    {Settings(Paths(1), mode, 0, <<0, 1>>, <<0, 1>>, mfs, mr, mbs, uwf) :
        mode \in Modes, mfs \in {SmallFile, BigFile}, mr \in {0, MaxRotation},
        mbs \in {0, SmallBuffer}, uwf \in BOOLEAN}

InitModes == \E s \in ModeSettings : Construct(s, 4)

SpecModes == InitModes /\ [][Next]_vars

(* The worker pool shut down and resumed; more paths than one batch holds *)

PoolSettings ==
    {Settings(Paths(n), "a", 0, <<0, 1>>, <<0, 1>>, BigFile, 0, mbs, FALSE) :
        n \in {1, 2, BatchLimit + 1}, mbs \in {0, SmallBuffer}}

InitPool == \E s \in PoolSettings : Construct(s, 4)

NextPool ==
    \/ Log(<<"a">>, NoFault)
    \/ AsyncLog(<<"b", "b">>, NoFault)
    \/ BufferForceFlush(NoFault)
    \/ ForceShutdown
    \/ ResumePool

SpecPool == InitPool /\ [][NextPool]_vars

(* Teardown, with the disk failing or not *)

WriteFaults ==
    {NoFault} \cup [path : {1, 2}, n : {1}, at : {"write"}]

TeardownSettings ==
    {Settings(Paths(n), "a", 0, <<0, 1>>, <<0, 1>>, BigFile, 0, mbs, uwf) :
        n \in {1, 2}, mbs \in {0, SmallBuffer}, uwf \in BOOLEAN}

InitTeardown == \E s \in TeardownSettings : Construct(s, 4)

NextTeardown ==
    \/ \E m \in Messages : Log(m, NoFault)
    \/ \E m \in Messages : AsyncLog(m, NoFault)
    \/ ClearSyncPool
    \/ \E f \in WriteFaults : ClearAll(f)
    \/ \E f \in WriteFaults : Exit(f)
    \/ \E f \in WriteFaults : AExit(f)

SpecTeardown == InitTeardown /\ [][NextTeardown]_vars

(* Failing writes: every retry setting, faults injected in write or flush *)

MaxRetry == 3
RetryOps == 2

Faults ==
    {NoFault} \cup [path : {1, 2}, n : 1..MaxFault, at : {"write", "flush"}]

\* faults that outlast every retry
PersistentFaults ==
    {NoFault} \cup [path : {1, 2}, n : {MaxRetry + 1}, at : {"write", "flush"}]

Delays ==
    {<<<<0, 1>>, <<1, 5>>>>, <<<<1, 2>>, <<0, 1>>>>, <<<<1, 2>>, <<1, 5>>>>,
     <<<<1, 2>>, <<2, 1>>>>}

RetrySettings ==
    {Settings(Paths(2), "a", rl, d[1], d[2], BigFile, 0, mbs, uwf) :
        rl \in 0..MaxRetry, d \in Delays, mbs \in {0, SmallBuffer},
        uwf \in BOOLEAN}

InitRetry == \E s \in RetrySettings : Construct(s, 4)

NextRetry ==
    /\ nops < RetryOps
    /\ \/ \E f \in Faults : Log(<<"a">>, f)
       \/ \E f \in PersistentFaults : AsyncLog(<<"b", "b">>, f)
       \/ \E f \in PersistentFaults : BufferForceFlush(f)

SpecRetry == InitRetry /\ [][NextRetry]_vars

----------------------------------------------------------------------------
(* Messages that are no log line: log and async_log in every handler state *)

BadMessages == {NotAString, <<>>, <<" ">>, <<NL, " ">>}

RejectSettings ==
    {Settings(Paths(n), "a", 0, <<0, 1>>, <<0, 1>>, BigFile, 0, mbs, uwf) :
        n \in {1, 2}, mbs \in {0, SmallBuffer}, uwf \in BOOLEAN}

InitReject == \E s \in RejectSettings : Construct(s, 4)

NextReject ==
    \/ \E m \in {<<"a">>} \cup BadMessages : Log(m, NoFault)
    \/ \E m \in {<<"b", "b">>} \cup BadMessages : AsyncLog(m, NoFault)
    \/ ForceShutdown
    \/ ClearAll(NoFault)

SpecReject == InitReject /\ [][NextReject]_vars

----------------------------------------------------------------------------
(* Configuration: the setters, config, reset and the constructor arguments  *)

\* a Python value handed to the handler: its type, its number (a rational),
\* its items when it is iterable, and its member name when it is a
\* LogWriteMode; no str of the model spells the value of a write mode
Value(type, val, items, name) ==
    [type |-> type, val |-> val, items |-> items, name |-> name]

OfInt(n) == Value("int", <<n, 1>>, <<>>, "")
OfFloat(r) == Value("float", r, <<>>, "")
OfBool(b) == Value("bool", <<IF b THEN 1 ELSE 0, 1>>, <<>>, "")
None == Value("NoneType", <<0, 1>>, <<>>, "")
Member(m) == Value("LogWriteMode", <<0, 1>>, <<>>, m)

\* what a path collection holds: Path(i), the directory Path(i), the str
\* that names path i, or the int i
Item(type, id) == [type |-> type, id |-> id]

PathItems(paths) == [i \in DOMAIN paths |-> Item("Path", paths[i])]
List(items) == Value("list", <<0, 1>>, items, "")
Tuple(items) == Value("tuple", <<0, 1>>, items, "")
\* a str, iterated character by character
Str(chars) ==
    Value("str", <<0, 1>>, [i \in DOMAIN chars |-> Item("str", chars[i])], "")

Fields ==
    {"file_paths", "write_mode", "retry_limit", "retry_delay",
     "backoff_factor", "max_file_size", "max_rotation", "max_buffer_size",
     "use_write_flush"}

\* the fields of the handler and the exception on its way out, if any
Holder(s) == [cfg |-> s, err |-> NoErr]

Held ==
    Holder(Settings(file_paths, write_mode, retry_limit, retry_delay,
                    backoff_factor, max_file_size, max_rotation,
                    max_buffer_size, use_write_flush))

Assign(c, field, x) == [c EXCEPT !.cfg[field] = x]

Refuse(c, e) == [c EXCEPT !.err = e]

\* except Exception as e: raise <error>(...) from e
Wrap(c, e) == IF c.err # NoErr THEN Refuse(c, e) ELSE c

SettingsError == "FileHandlerSettingsError"

IsPath(item) == item.type \in {"Path", "dir"}

ValidPath(item) == IsPath(item) /\ item.type # "dir"

file_paths_setter(c, paths) ==
    IF paths.type # "list" THEN Refuse(c, SettingsError)
    ELSE IF paths.items = <<>> THEN Refuse(c, SettingsError)
    ELSE IF \E i \in DOMAIN paths.items : ~ValidPath(paths.items[i])
         THEN Refuse(c, SettingsError)
    ELSE Assign(c, "file_paths", [i \in DOMAIN paths.items |-> paths.items[i].id])

\* mode in LogWriteMode
InLogWriteMode(mode) == mode.type = "LogWriteMode" /\ mode.name \in Modes

write_mode_setter(c, mode) ==
    IF mode.type \notin {"LogWriteMode", "str"} THEN Refuse(c, SettingsError)
    ELSE IF ~InLogWriteMode(mode) THEN Refuse(c, SettingsError)
    ELSE Assign(c, "write_mode", mode.name)

\* isinstance(x, int): bool is a subclass of int
IsInt(x) == x.type \in {"int", "bool"}

\* isinstance(x, (int, float))
IsNumber(x) == x.type \in {"int", "bool", "float"}

Negative(x) == x.val[1] < 0

\* retry_limit, max_file_size, max_rotation, max_buffer_size
int_setter(c, field, x) ==
    IF ~IsInt(x) \/ Negative(x) THEN Refuse(c, SettingsError)
    ELSE Assign(c, field, x.val[1])

\* retry_delay, backoff_factor
number_setter(c, field, x) ==
    IF ~IsNumber(x) \/ Negative(x) THEN Refuse(c, SettingsError)
    ELSE Assign(c, field, x.val)

use_write_flush_setter(c, use_flush) ==
    IF use_flush.type # "bool" THEN Refuse(c, SettingsError)
    ELSE Assign(c, "use_write_flush", use_flush.val[1] = 1)

\* self.<field> = x
Set(c, field, x) ==
    CASE field = "file_paths" -> file_paths_setter(c, x)
      [] field = "write_mode" -> write_mode_setter(c, x)
      [] field \in {"retry_limit", "max_file_size", "max_rotation",
                    "max_buffer_size"} -> int_setter(c, field, x)
      [] field \in {"retry_delay", "backoff_factor"} -> number_setter(c, field, x)
      [] field = "use_write_flush" -> use_write_flush_setter(c, x)

\* the next statement of a method: not reached once an exception is raised
Then(c, field, x) == IF c.err # NoErr THEN c ELSE Set(c, field, x)

Iterable(x) == x.type \in {"list", "tuple", "str"}

\* [Path(path) if isinstance(path, str) else path for path in file_paths]
out_paths(x) ==
    List([i \in DOMAIN x.items |->
            IF x.items[i].type = "str" THEN Item("Path", x.items[i].id)
            ELSE x.items[i]])

SetPaths(c, x) ==
    IF ~Iterable(x) THEN Refuse(c, "TypeError")
    ELSE file_paths_setter(c, out_paths(x))

\* the loop of __init__ that builds out_list
out_list(c, x) ==
    IF ~Iterable(x) THEN Refuse(c, "TypeError")
    ELSE IF \E i \in DOMAIN x.items : x.items[i].type \notin {"str", "Path", "dir"}
         THEN Refuse(c, "ValueError")
    ELSE file_paths_setter(c, out_paths(x))

InitDefaults ==
    [write_mode |-> Member("a"), retry_limit |-> OfInt(2),
     retry_delay |-> OfFloat(<<1, 10>>), backoff_factor |-> OfFloat(<<1, 5>>),
     max_file_size |-> OfInt(10 * 1024 * 1024), max_rotation |-> OfInt(5),
     max_buffer_size |-> OfInt(1024 * 1024), use_write_flush |-> OfBool(TRUE)]

ConfigDefaults ==
    [write_mode |-> Member("a"), retry_limit |-> OfInt(3),
     retry_delay |-> OfFloat(<<1, 2>>), backoff_factor |-> OfFloat(<<1, 5>>),
     max_file_size |-> OfInt(10 * 1024 * 1024), max_rotation |-> OfInt(5),
     max_buffer_size |-> OfInt(1024 * 1024), use_write_flush |-> OfBool(TRUE)]

ResetDefaults ==
    [write_mode |-> Member("a"), retry_limit |-> OfInt(3),
     retry_delay |-> OfFloat(<<1, 2>>), backoff_factor |-> OfFloat(<<1, 5>>),
     max_file_size |-> OfInt(10 * 1024 * 1024), max_rotation |-> OfInt(2),
     max_buffer_size |-> OfInt(1024 * 1024), use_write_flush |-> OfBool(TRUE)]

\* the arguments of a call: the keywords given, the defaults of the
\* signature for the others
Bind(given, defaults) ==
    [f \in Fields |-> IF f \in DOMAIN given THEN given[f] ELSE defaults[f]]

\* the slots of an object under construction
Blank == Holder(Settings(<<>>, "a", 0, <<0, 1>>, <<0, 1>>, 0, 0, 0, FALSE))

SetAll(c, a) ==
    Then(Then(Then(Then(Then(Then(Then(Then(c,
        "write_mode", a.write_mode), "retry_limit", a.retry_limit),
        "retry_delay", a.retry_delay), "backoff_factor", a.backoff_factor),
        "max_file_size", a.max_file_size), "max_rotation", a.max_rotation),
        "max_buffer_size", a.max_buffer_size),
        "use_write_flush", a.use_write_flush)

__init__(given) ==
    IF "file_paths" \notin DOMAIN given THEN Refuse(Blank, "TypeError")
    ELSE Wrap(SetAll(out_list(Blank, given.file_paths), Bind(given, InitDefaults)),
              "FileHandlerConstructionError")

reset(c, paths) ==
    Wrap(SetAll(SetPaths(c, paths), ResetDefaults), "FileHandlerResetError")

\* if <argument> is not None: self.<field> = <argument>
Apply(c, field, x) ==
    IF c.err # NoErr \/ x.type = "NoneType" THEN c ELSE Set(c, field, x)

ApplyPaths(c, x) == IF x.type = "NoneType" THEN c ELSE SetPaths(c, x)

ApplyAll(c, a) ==
    Apply(Apply(Apply(Apply(Apply(Apply(Apply(Apply(ApplyPaths(c, a.file_paths),
        "write_mode", a.write_mode), "retry_limit", a.retry_limit),
        "retry_delay", a.retry_delay), "backoff_factor", a.backoff_factor),
        "max_file_size", a.max_file_size), "max_rotation", a.max_rotation),
        "max_buffer_size", a.max_buffer_size),
        "use_write_flush", a.use_write_flush)

\* FileHandler.config: a keyword left out is bound to the default of the
\* signature, which is not None
config_(c, given) ==
    IF "file_paths" \notin DOMAIN given THEN Refuse(c, "TypeError")
    ELSE Wrap(ApplyAll(c, Bind(given, ConfigDefaults)), "FileHandlerConfigError")

\* self.config(**config_dict)
config_dict(c, given) == config_(c, given)

ConfigOps == 2

\* the end of a configuring call: the fields it assigned, the exception it raised
Configure(op, arg, c) ==
    /\ nops < ConfigOps
    /\ file_paths' = c.cfg.file_paths
    /\ write_mode' = c.cfg.write_mode
    /\ retry_limit' = c.cfg.retry_limit
    /\ retry_delay' = c.cfg.retry_delay
    /\ backoff_factor' = c.cfg.backoff_factor
    /\ max_file_size' = c.cfg.max_file_size
    /\ max_rotation' = c.cfg.max_rotation
    /\ max_buffer_size' = c.cfg.max_buffer_size
    /\ use_write_flush' = c.cfg.use_write_flush
    /\ last' = [Outcome(op, arg, NoFault, Now) EXCEPT !.err = c.err]
    /\ nops' = nops + 1

\* handler.<field> = x
SetField(field, x) ==
    /\ Configure("set", [field |-> field, value |-> x], Set(Held, field, x))
    /\ UNCHANGED <<temp_sync_pool, buffer, buffer_pos, threads, threadpool,
                   pools, fs, handles, cpu_count, accepted>>

Config(given) ==
    /\ "file_paths" \in DOMAIN given
    /\ Configure("config", given, config_(Held, given))
    /\ UNCHANGED <<temp_sync_pool, buffer, buffer_pos, threads, threadpool,
                   pools, fs, handles, cpu_count, accepted>>

ConfigDict(given) ==
    /\ Configure("config_dict", given, config_dict(Held, given))
    /\ UNCHANGED <<temp_sync_pool, buffer, buffer_pos, threads, threadpool,
                   pools, fs, handles, cpu_count, accepted>>

Reset(paths) ==
    /\ Configure("reset", paths, reset(Held, paths))
    /\ UNCHANGED <<temp_sync_pool, buffer, buffer_pos, threads, threadpool,
                   pools, fs, handles, cpu_count, accepted>>

\* FileHandler([Path(1)], <field>=x), or FileHandler(x) for the path list
Arguments(field, x) ==
    [f \in {"file_paths", field} |->
        IF f = field THEN x ELSE List(PathItems(<<1>>))]

\* handler = FileHandler(...): a construction that raises leaves the handler
\* in place, one that returns replaces it by a new one
New(field, x) ==
    /\ Configure("new", [field |-> field, value |-> x],
                 IF __init__(Arguments(field, x)).err = NoErr
                 THEN __init__(Arguments(field, x))
                 ELSE Refuse(Held, __init__(Arguments(field, x)).err))
    /\ IF __init__(Arguments(field, x)).err = NoErr
       THEN /\ temp_sync_pool' = EmptyMap
            /\ buffer' = <<>>
            /\ buffer_pos' = 0
            /\ pools' = Append(pools, FALSE)
            /\ threadpool' = Len(pools')
       ELSE UNCHANGED <<temp_sync_pool, buffer, buffer_pos, pools, threadpool>>
    /\ UNCHANGED <<threads, fs, handles, cpu_count, accepted>>

MaxSetting == 7

PathValues ==
    {List(PathItems(<<1>>)), List(PathItems(<<2, 1>>)),
     List(PathItems(<<1, 1>>)), List(<<>>), None,
     OfInt(1), Str(<<1, 2>>), Tuple(PathItems(<<2>>)), List(<<Item("str", 2)>>),
     List(<<Item("int", 1)>>), List(<<Item("Path", 1), Item("dir", 2)>>)}

ModeValues == {Member("w"), Member("r+"), Str(<<1>>), OfInt(1), None}

IntValues ==
    {OfInt(-1), OfInt(0), OfInt(MaxSetting), OfBool(TRUE), OfFloat(<<1, 1>>), Str(<<1>>),
     None}

NumberValues ==
    {OfInt(-1), OfFloat(<<-1, 2>>), OfInt(1), OfFloat(<<1, 4>>), OfBool(TRUE), Str(<<1>>),
     None}

FlagValues == {OfBool(TRUE), OfBool(FALSE), OfInt(1), Str(<<1>>), None}

ValuesOf(field) ==
    CASE field = "file_paths" -> PathValues
      [] field = "write_mode" -> ModeValues
      [] field \in {"retry_limit", "max_file_size", "max_rotation",
                    "max_buffer_size"} -> IntValues
      [] field \in {"retry_delay", "backoff_factor"} -> NumberValues
      [] field = "use_write_flush" -> FlagValues

\* the keywords of a config call, the keys of a config_dict
Dicts ==
    {[file_paths |-> List(PathItems(<<1>>))],
     [file_paths |-> List(<<Item("str", 2)>>), retry_delay |-> OfFloat(<<1, 1>>)],
     [file_paths |-> List(PathItems(<<1>>)), max_rotation |-> OfInt(4)],
     [file_paths |-> None, retry_limit |-> OfInt(1)],
     [file_paths |-> None, write_mode |-> None, retry_limit |-> None,
      retry_delay |-> None, backoff_factor |-> None, max_file_size |-> None,
      max_rotation |-> OfInt(4), max_buffer_size |-> None,
      use_write_flush |-> None],
     [file_paths |-> List(PathItems(<<1>>)), retry_limit |-> OfInt(6),
      retry_delay |-> OfInt(-1), max_rotation |-> OfInt(0)],
     [file_paths |-> OfInt(1)],
     [retry_limit |-> OfInt(5)]}

ConfigSettings ==
    {__init__([file_paths |-> List(PathItems(<<1>>))]).cfg,
     Settings(Paths(2), "w", 1, <<0, 1>>, <<0, 1>>, SmallFile, 1, 0, FALSE)}

InitConfig == \E s \in ConfigSettings : Construct(s, 4)

NextConfig ==
    \/ \E field \in Fields : \E x \in ValuesOf(field) : SetField(field, x)
    \/ \E given \in Dicts : Config(given)
    \/ \E given \in Dicts : ConfigDict(given)
    \/ \E paths \in PathValues : Reset(paths)
    \/ \E field \in Fields : \E x \in ValuesOf(field) : New(field, x)

SpecConfig == InitConfig /\ [][NextConfig]_vars

\* the path list through the life of a handler: assigned, configured, reset,
\* written to and torn down
NextPaths ==
    \/ \E x \in PathValues : SetField("file_paths", x)
    \/ \E given \in Dicts : Config(given)
    \/ \E paths \in PathValues : Reset(paths)
    \/ \E m \in Messages : Log(m, NoFault)
    \/ BufferForceFlush(NoFault)
    \/ ClearAll(NoFault)
    \/ Exit(NoFault)

SpecPaths == InitConfig /\ [][NextPaths]_vars

\* both logging calls on one handler, whose path list may be assigned anew
EitherSettings ==
    {Settings(Paths(n), "a", 0, <<0, 1>>, <<0, 1>>, mfs, mr, mbs, uwf) :
        n \in {1, 2}, mfs \in {SmallFile, BigFile}, mr \in {0, 1},
        mbs \in {0, SmallBuffer}, uwf \in BOOLEAN}

InitEither == \E s \in EitherSettings : Construct(s, 4)

NextEither ==
    \/ \E m \in Messages : Log(m, NoFault)
    \/ \E m \in Messages : AsyncLog(m, NoFault)
    \/ \E x \in PathValues : SetField("file_paths", x)
    \/ BufferForceFlush(NoFault)
    \/ ClearSyncPool

SpecEither == InitEither /\ [][NextEither]_vars

----------------------------------------------------------------------------
(* Reading files back *)

RECURSIVE SplitLines(_, _)
SplitLines(s, cur) ==
    IF s = <<>> THEN (IF cur = <<>> THEN <<>> ELSE <<cur>>)
    ELSE IF Head(s) = NL THEN <<cur>> \o SplitLines(Tail(s), <<>>)
    ELSE SplitLines(Tail(s), Append(cur, Head(s)))

\* the lines of a text
Lines(s) == SplitLines(s, <<>>)

\* m is a line of the text, up to the whitespace around it
HasLine(data, m) == \E i \in 1..Len(Lines(data)) : Strip(Lines(data)[i]) = Strip(m)

Range(q) == {q[i] : i \in 1..Len(q)}

Configured == Range(file_paths)

\* what reading the path returns
Content(path) == IF Live(path) \in DOMAIN fs THEN fs[Live(path)] ELSE <<>>

----------------------------------------------------------------------------
(* C1: in append mode, once log(m) has returned and the buffer_force_flush() *)
(* that follows it has returned, every configured file contains m as a line *)
(* (here even up to surrounding whitespace).                                *)
C1_LogThenFlushWritesMessage ==
    [][(/\ write_mode = "a"
        /\ last.op = "log" /\ last.err = NoErr
        /\ last'.op = "buffer_force_flush" /\ last'.err = NoErr)
       => \A p \in Configured : HasLine(fs'[Live(p)], last.msg)]_vars

(* C2: with no rotation in play, after a buffer_force_flush() that returned, *)
(* every message whose log / async_log call returned is in every configured *)
(* file.                                                                    *)
C2_NoAcceptedMessageLost ==
    (/\ write_mode = "a" /\ max_file_size = BigFile
     /\ last.op = "buffer_force_flush" /\ last.err = NoErr)
    => \A p \in Configured : \A i \in 1..Len(accepted) :
           HasLine(Content(p), accepted[i])

----------------------------------------------------------------------------
(* Concurrent callers *)

\* how many lines of the text are the message, up to outer whitespace
RECURSIVE Count(_, _)
Count(lines, m) ==
    IF lines = <<>> THEN 0
    ELSE (IF Strip(Head(lines)) = Strip(m) THEN 1 ELSE 0) + Count(Tail(lines), m)

Logged == {threads[t].msg : t \in DOMAIN threads}

(* C3: once the threads that called log have returned and the buffer has     *)
(* been force-flushed, every configured file holds each logged message       *)
(* exactly once as a whole line, and no line that is not a logged message.   *)
C3_ConcurrentLogsAllWritten ==
    (AllDone /\ threads # <<>> /\ last.op = "buffer_force_flush" /\ last.err = NoErr)
    => \A p \in Configured :
          /\ \A m \in Logged : Count(Lines(Content(p)), m) = 1
          /\ \A i \in 1..Len(Lines(Content(p))) :
                \E m \in Logged : Strip(Lines(Content(p))[i]) = Strip(m)

----------------------------------------------------------------------------
(* Rotation *)

\* what the path holds once the data its file object still holds is written
Logical(f, hs, pool, path) ==
    (IF Live(path) \in DOMAIN f THEN f[Live(path)] ELSE <<>>)
    \o (IF path \in DOMAIN pool THEN hs[pool[path]].pending ELSE <<>>)

Dispatching(o) ==
    /\ o.op \in {"log", "async_log", "buffer_force_flush"}
    /\ o.err = NoErr
    /\ Len(o.sent) = 1

(* C5: a write that rotates path p (max_rotation >= 1) leaves the prior      *)
(* content of p in sibling _1, the prior content of each sibling _i in       *)
(* _(i+1) for 1 <= i < max_rotation (so the prior _max_rotation is gone),    *)
(* and p holding only the line of the message that triggered the rotation.   *)
C5_RotationShiftsSiblings ==
    [][\A p \in Configured :
        (Dispatching(last') /\ p \in last'.rotated /\ max_rotation >= 1)
        => /\ Rotated(p, 1) \in DOMAIN fs'
           /\ fs'[Rotated(p, 1)] = Logical(fs, handles, temp_sync_pool, p)
           /\ \A i \in 1..(max_rotation - 1) :
                 /\ (Rotated(p, i + 1) \in DOMAIN fs') = (Rotated(p, i) \in DOMAIN fs)
                 /\ Rotated(p, i) \in DOMAIN fs
                       => fs'[Rotated(p, i + 1)] = fs[Rotated(p, i)]
           /\ Logical(fs', handles', temp_sync_pool', p) = last'.sent[1] \o <<NL>>]_vars

\* a rotation has just moved a first sibling up to _2
C5_Witness ==
    /\ Dispatching(last) /\ 1 \in last.rotated /\ max_rotation = 2
    /\ Rotated(1, 2) \in DOMAIN fs
    /\ fs[Rotated(1, 1)] # <<>>

(* C6: under a fixed configuration the rotated siblings of a path are        *)
(* numbered 1..max_rotation only, so at most max_rotation copies exist; with *)
(* max_rotation = 0 there is never a sibling and a rotation leaves the path  *)
(* truncated, holding the triggering message only.                           *)
C6_SiblingsWithinMaxRotation ==
    /\ \A name \in DOMAIN fs : name[2] \in 0..max_rotation
    /\ \A p \in Configured :
          (Dispatching(last) /\ p \in last.rotated /\ max_rotation = 0)
          => Logical(fs, handles, temp_sync_pool, p) = last.sent[1] \o <<NL>>

\* a third rotation of path 1 with max_rotation = 2: four messages were
\* written, three lines are left, _2 is reused
C6_Witness ==
    /\ max_rotation = 2 /\ max_buffer_size = 0 /\ Len(accepted) = 4
    /\ 1 \in last.rotated
    /\ Rotated(1, 1) \in DOMAIN fs /\ Rotated(1, 2) \in DOMAIN fs
    /\ Len(Lines(fs[Live(1)])) + Len(Lines(fs[Rotated(1, 1)]))
         + Len(Lines(fs[Rotated(1, 2)])) = 3

----------------------------------------------------------------------------
(* Retries *)

WriteOps == {"log", "async_log", "buffer_force_flush"}

Attempted(o) == IF o.op \in WriteOps THEN DOMAIN o.attempts ELSE {}

\* every attempt of the operation on path p failed
FailedThroughout(o, p) ==
    /\ p \in Attempted(o)
    /\ o.fault.path = p
    /\ o.fault.at = "write" \/ use_write_flush
    /\ o.fault.n >= o.attempts[p]

(* C7 as stated: a write that keeps failing is attempted exactly retry_limit  *)
(* times and the call raises; no write is attempted more than retry_limit     *)
(* times.                                                                     *)
C7_ExactlyRetryLimitAttempts ==
    \A p \in Attempted(last) :
        /\ last.attempts[p] <= retry_limit
        /\ FailedThroughout(last, p)
              => last.attempts[p] = retry_limit /\ last.err # NoErr

(* C7, amended: a write that keeps failing is attempted exactly retry_limit   *)
(* times when retry_limit >= 1 and exactly once when retry_limit = 0, and     *)
(* then the call raises its write error; no write is attempted more than      *)
(* max(retry_limit, 1) times.                                                 *)
C7_AttemptsBoundedByRetryLimit ==
    \A p \in Attempted(last) :
        /\ last.attempts[p] <= Max(retry_limit, 1)
        /\ FailedThroughout(last, p)
              => /\ last.attempts[p] = Max(retry_limit, 1)
                 /\ last.err = CASE last.op = "log" -> "FileHandlerWriteError"
                                 [] last.op = "async_log" -> "FileHandlerAsyncWriteError"
                                 [] OTHER -> "FileHandlerBufferError"

\* retry_limit = 3: the third failure on path 2 ends the call, path 1 written
C7_Witness ==
    /\ retry_limit = 3 /\ last.op = "log"
    /\ FailedThroughout(last, 2)
    /\ last.attempts[2] = 3
    /\ last.err = "FileHandlerWriteError"
    /\ 1 \in Attempted(last) /\ last.attempts[1] = 1

\* the delay the claim gives for the sleep after the k-th failed attempt
ClaimedDelay(k) ==
    IF backoff_factor[1] > 0
    THEN <<retry_delay[1] * IntPow(backoff_factor[1], k - 1),
           retry_delay[2] * IntPow(backoff_factor[2], k - 1)>>
    ELSE retry_delay

\* the attempts of the operation that were followed by another attempt
Retried(o) ==
    IF o.fault.path \in Attempted(o) THEN o.attempts[o.fault.path] - 1 ELSE 0

(* C8: the k-th failed attempt that is followed by another attempt is         *)
(* followed by a sleep of retry_delay * backoff_factor^(k-1) when             *)
(* backoff_factor > 0 and of retry_delay when backoff_factor = 0; nothing is  *)
(* slept after the last failed attempt, nor when retry_delay = 0.             *)
C8_BackoffDelays ==
    last.op \in WriteOps =>
        /\ Len(last.sleeps) = IF RatPos(retry_delay) THEN Retried(last) ELSE 0
        /\ \A k \in 1..Len(last.sleeps) : RatEq(last.sleeps[k], ClaimedDelay(k))

\* retry_limit 3, retry_delay 0.5, backoff_factor 0.2: three failures, the
\* sleeps in between are 0.5 and 0.1
C8_Witness ==
    /\ retry_limit = 3 /\ RatEq(retry_delay, <<1, 2>>)
    /\ RatEq(backoff_factor, <<1, 5>>)
    /\ last.op = "log" /\ last.err # NoErr
    /\ FailedThroughout(last, 1) /\ last.attempts[1] = 3
    /\ Len(last.sleeps) = 2
    /\ RatEq(last.sleeps[1], <<1, 2>>) /\ RatEq(last.sleeps[2], <<1, 10>>)

----------------------------------------------------------------------------
(* Shutdown and resume *)

\* the call handed a message to the writers
Dispatched(o) == o.op \in {"log", "async_log"} /\ o.sent # <<>>

(* C9: while the worker pool is shut down, a log or async_log call that       *)
(* dispatches a message fails with its write error and leaves every file as   *)
(* it was, whatever the number of paths.                                      *)
C9_ShutdownFailsFast ==
    [][(Shutdown /\ Dispatched(last'))
       => /\ last'.err \in {"FileHandlerWriteError", "FileHandlerAsyncWriteError"}
          /\ \A p \in Configured :
                Logical(fs', handles', temp_sync_pool', p)
                   = Logical(fs, handles, temp_sync_pool, p)]_vars

(* C10: force_shutdown followed by resume_pool leaves the handler running,    *)
(* and the log or async_log that follows dispatches without error; neither    *)
(* operation changes the configuration, the buffer or the slot pool.          *)
C10_ResumeRestoresRunning ==
    [][/\ (last.op = "force_shutdown" /\ last'.op = "resume_pool") => ~Shutdown'
       /\ (last.op = "resume_pool" /\ Dispatched(last')) => last'.err = NoErr
       /\ last'.op \in {"force_shutdown", "resume_pool"}
             => UNCHANGED <<config, buffer, buffer_pos, temp_sync_pool, handles, fs>>]_vars

\* shut down and resumed with the slots open and a line written; the
\* async_log that follows dispatches through the new executor
C10_Witness ==
    /\ Len(pools) = 2 /\ pools[1] /\ ~Shutdown
    /\ Len(file_paths) = 2
    /\ Dispatched(last) /\ last.op = "async_log" /\ last.err = NoErr
    /\ accepted = <<<<"a">>, <<"b", "b">>>>
    /\ \A p \in Configured :
          Logical(fs, handles, temp_sync_pool, p) = <<"a", NL, "b", "b", NL>>

----------------------------------------------------------------------------
(* Order of the lines of one path *)

\* the files as they read once every open file object is flushed
Flushed == writer_force_flush(Now).fs

RECURSIVE SiblingLines(_, _)
\* the lines of the siblings _i, _(i-1), .., _1 of the path: oldest first
SiblingLines(path, i) ==
    IF i = 0 THEN <<>>
    ELSE (IF Rotated(path, i) \in DOMAIN Flushed
          THEN Lines(Flushed[Rotated(path, i)]) ELSE <<>>)
         \o SiblingLines(path, i - 1)

AllLines(path) ==
    SiblingLines(path, max_rotation)
    \o (IF Live(path) \in DOMAIN Flushed THEN Lines(Flushed[Live(path)]) ELSE <<>>)

RECURSIVE InOrder(_, _)
\* the lines are, in this order, among the messages (up to outer whitespace)
InOrder(lines, messages) ==
    IF lines = <<>> THEN TRUE
    ELSE IF messages = <<>> THEN FALSE
    ELSE IF Strip(Head(lines)) = Strip(Head(messages))
         THEN InOrder(Tail(lines), Tail(messages))
         ELSE InOrder(lines, Tail(messages))

(* C4 as stated: for every path and in every write mode, the lines read from  *)
(* the rotated siblings, oldest first, and then from the live file are lines  *)
(* of the caller's messages in the order the caller logged them.              *)
C4_LinesInLogOrder ==
    \A p \in Configured : InOrder(AllLines(p), accepted)

(* C4, amended: in the write modes append, overwrite and write_read, for      *)
(* every path the lines read from the rotated siblings, oldest first, and     *)
(* then from the live file are lines of the caller's messages in the order    *)
(* the caller logged them, buffered or not.                                   *)
C4_LinesInLogOrderUnlessReadWrite ==
    write_mode \in {"a", "w", "w+"} => C4_LinesInLogOrder

\* three different messages and two rotations: the oldest line in _2, the
\* next in _1, the newest in the live file
C4_Witness ==
    /\ write_mode = "w" /\ max_rotation = MaxRotation
    /\ Len(accepted) = 3 /\ accepted[1] # accepted[2] /\ accepted[2] # accepted[3]
    /\ accepted[1] # accepted[3]
    /\ 1 \in last.rotated
    /\ Rotated(1, 2) \in DOMAIN Flushed
    /\ Lines(Flushed[Rotated(1, 2)]) = <<accepted[1]>>
    /\ Lines(Flushed[Rotated(1, 1)]) = <<accepted[2]>>
    /\ Lines(Flushed[Live(1)]) = <<accepted[3]>>

----------------------------------------------------------------------------
(* Teardown *)

AllClosed == \A h \in DOMAIN handles : handles[h].closed

(* C11: a teardown (clear_all, __exit__, __aexit__) raises nothing and       *)
(* completes its release steps whatever fails on the way: the path list is   *)
(* cleared, the worker pool is shut down and, for clear_all and __exit__,    *)
(* the slot pool is empty with every handle closed.                          *)
C11_TeardownNeverRaises ==
    last.op \in {"clear_all", "__exit__", "__aexit__"}
    => /\ last.err = NoErr
       /\ file_paths = <<>>
       /\ Shutdown
       /\ last.op # "__aexit__" => temp_sync_pool = EmptyMap /\ AllClosed

(* C12: when __exit__ or __aexit__ completes, every line the buffer held at   *)
(* the exit is in the file of every path that was configured at the exit.     *)
C12_ExitFlushesBufferToPaths ==
    [][(last'.op \in {"__exit__", "__aexit__"} /\ last'.err = NoErr)
       => \A p \in Configured :
             \A i \in 1..Len(Lines(Strip(buffer))) :
                 /\ Live(p) \in DOMAIN fs'
                 /\ HasLine(fs'[Live(p)], Lines(Strip(buffer))[i])]_vars

\* two messages were buffered in the scope; its exit wrote both to both paths
C12_Witness ==
    /\ last.op = "__exit__" /\ last.err = NoErr
    /\ accepted = <<<<"a">>, <<"b", "b">>>>
    /\ last.sent = <<<<"a", NL, "b", "b">>>>
    /\ file_paths = <<>>
    /\ \A p \in {1, 2} : Live(p) \in DOMAIN fs
                         /\ fs[Live(p)] = <<"a", NL, "b", "b", NL>>

(* C13: when clear_all has returned, the buffer is empty (tell() is 0), the   *)
(* slot pool is empty, every file object is closed, the path list is empty    *)
(* and the worker pool is shut down.                                          *)
C13_ClearAllReleasesEverything ==
    (last.op = "clear_all" /\ last.err = NoErr)
    => /\ buffer = <<>> /\ buffer_pos = 0
       /\ temp_sync_pool = EmptyMap
       /\ AllClosed
       /\ file_paths = <<>>
       /\ Shutdown

\* clear_all with a message in the buffer and two slots open
C13_Witness ==
    /\ last.op = "clear_all" /\ last.err = NoErr /\ last.after = "log"
    /\ Len(last.sent) = 1
    /\ Len(handles) = 2 /\ AllClosed
    /\ temp_sync_pool = EmptyMap /\ file_paths = <<>> /\ Shutdown

(* C14: when __aexit__ has completed, the slot pool is empty and every file   *)
(* object is closed, the buffer is empty, the path list is empty and the      *)
(* worker pool is shut down, as after __exit__.                               *)
C14_AsyncExitClosesSlots ==
    (last.op = "__aexit__" /\ last.err = NoErr)
    => /\ buffer = <<>> /\ buffer_pos = 0
       /\ temp_sync_pool = EmptyMap
       /\ AllClosed
       /\ file_paths = <<>>
       /\ Shutdown

(* C15: clear_sync_pool raises nothing and leaves the slot pool empty and     *)
(* every file object closed; called again right after, it changes nothing.    *)
C15_ClearSyncPoolIdempotent ==
    [][/\ last'.op = "clear_sync_pool"
          => /\ last'.err = NoErr
             /\ temp_sync_pool' = EmptyMap
             /\ \A h \in DOMAIN handles' : handles'[h].closed
       /\ (last.op = "clear_sync_pool" /\ last'.op = "clear_sync_pool")
          => UNCHANGED <<config, fs, handles, temp_sync_pool, buffer, buffer_pos,
                         threadpool, pools>>]_vars

\* two calls in a row after a write left data in an open slot
C15_Witness ==
    /\ last.op = "clear_sync_pool" /\ last.after = "clear_sync_pool"
    /\ nops = 3 /\ Len(accepted) = 1
    /\ handles # <<>> /\ AllClosed
    /\ \A p \in Configured : Live(p) \in DOMAIN fs /\ fs[Live(p)] # <<>>

----------------------------------------------------------------------------
(* Rejected messages *)

(* C19: log(m) and async_log(m) with m that is not a str, or that is empty    *)
(* once stripped, raise FileHandlerWriteError, resp.                          *)
(* FileHandlerAsyncWriteError, whatever the state of the handler, and leave   *)
(* the buffer, the slot pool, the file objects and the files as they were.    *)
C19_InvalidMessageRejected ==
    [][(/\ last'.op \in {"log", "async_log"}
        /\ (~IsStr(last'.msg) \/ Strip(last'.msg) = <<>>))
       => /\ last'.op = "log" => last'.err = "FileHandlerWriteError"
          /\ last'.op = "async_log" => last'.err = "FileHandlerAsyncWriteError"
          /\ UNCHANGED <<buffer, buffer_pos, temp_sync_pool, handles, fs>>]_vars

\* a blank message refused while the buffer holds a line and the slots are open
C19_Witness ==
    /\ last.op = "async_log" /\ last.msg = <<NL, " ">>
    /\ last.err = "FileHandlerAsyncWriteError" /\ last.after = "log"
    /\ buffer = <<"a", NL>>
    /\ DOMAIN temp_sync_pool = {1, 2}
    /\ ~AllClosed

----------------------------------------------------------------------------
(* Configuration *)

(* C17: a config or config_dict call changes only the fields it is given:     *)
(* every field that is not among its keywords keeps the value it had.         *)
C17_ConfigChangesOnlyGivenFields ==
    [][last'.op \in {"config", "config_dict"}
       => \A f \in Fields \ DOMAIN last'.msg :
             Held'.cfg[f] = Held.cfg[f]]_vars

(* C18: when reset(paths) has returned, file_paths is paths and every other   *)
(* field has the value it has in a handler constructed with those paths only. *)
C18_ResetRestoresDefaults ==
    (last.op = "reset" /\ last.err = NoErr)
    => /\ file_paths = [i \in DOMAIN last.msg.items |-> last.msg.items[i].id]
       /\ Held.cfg = __init__([file_paths |-> last.msg]).cfg

\* what the setters are documented to refuse
Invalid(field, x) ==
    CASE field = "file_paths" ->
            \/ x.type # "list"
            \/ x.items = <<>>
            \/ \E i \in DOMAIN x.items : x.items[i].type # "Path"
      [] field = "write_mode" -> x.type # "LogWriteMode"
      [] field \in {"retry_limit", "max_file_size", "max_rotation",
                    "max_buffer_size"} ->
            x.type \notin {"int", "bool"} \/ x.val[1] < 0
      [] field \in {"retry_delay", "backoff_factor"} ->
            x.type \notin {"int", "bool", "float"} \/ x.val[1] < 0
      [] field = "use_write_flush" -> x.type # "bool"

(* C20: an invalid value assigned to a field raises FileHandlerSettingsError  *)
(* and leaves every field as it was; the same value given to the constructor  *)
(* raises FileHandlerConstructionError.                                       *)
C20_InvalidValueRejected ==
    [][/\ (last'.op = "set" /\ Invalid(last'.msg.field, last'.msg.value))
          => last'.err = SettingsError /\ UNCHANGED config
       /\ (last'.op = "new" /\ Invalid(last'.msg.field, last'.msg.value))
          => last'.err = "FileHandlerConstructionError"]_vars

----------------------------------------------------------------------------
(* Slots under concurrency *)

\* the file objects open on the path
OpenOn(path) ==
    {h \in DOMAIN handles : ~handles[h].closed /\ handles[h].name = Live(path)}

(* C16: whatever the interleaving of concurrent log calls (with their pool    *)
(* initialisation and rotation) and clear_sync_pool, no path has more than    *)
(* one open file object at a time, and every open file object is in the slot  *)
(* pool or in the hands of the thread that is about to store or close it.     *)
C16_OneOpenHandlePerPath ==
    \A p \in Configured :
        /\ Cardinality(OpenOn(p)) <= 1
        /\ \A h \in OpenOn(p) :
              \/ p \in DOMAIN temp_sync_pool /\ temp_sync_pool[p] = h
              \/ \E t \in DOMAIN threads : threads[t].file = h

----------------------------------------------------------------------------
(* The path list *)

NoDuplicates(q) == \A i, j \in 1..Len(q) : i # j => q[i] # q[j]

(* C21: in every state of a constructed handler, whatever setters, config,    *)
(* reset, log and teardown calls were made, the path list is not empty and    *)
(* holds no path twice.                                                       *)
C21_PathsNonEmptyNoDuplicates ==
    file_paths # <<>> /\ NoDuplicates(file_paths)

\* every path but p holds every line of what the operation dispatched
OthersWritten(o, p) ==
    \A q \in Configured \ {p} :
        \A i \in 1..Len(Lines(o.sent[1])) :
            HasLine(Logical(fs, handles, temp_sync_pool, q), Lines(o.sent[1])[i])

(* C22: when the write to one path of a dispatch fails after its retries, the *)
(* call raises, and the message is still written to every other path of the   *)
(* dispatch.                                                                  *)
C22_FailureIsBestEffort ==
    \A p \in Configured :
        (last.op \in WriteOps /\ Len(last.sent) = 1 /\ FailedThroughout(last, p))
        => last.err # NoErr /\ OthersWritten(last, p)

----------------------------------------------------------------------------
(* The two logging calls *)

\* two calls that both returned and left the same buffer, pool, file objects
\* and files
SameEffect(a, b) ==
    /\ a.err = NoErr /\ b.err = NoErr
    /\ a.buf = b.buf
    /\ a.pool = b.pool
    /\ a.handles = b.handles
    /\ a.fs = b.fs

(* C23: in every state of a handler whose executor runs, async_log(m) leaves  *)
(* the buffer, the slot pool and every file as log(m) leaves them, for every  *)
(* valid message m (and so for every sequence of them).                       *)
C23_AsyncLogEquivalentToLog ==
    ~Shutdown
    => \A m \in Messages :
          SameEffect(log(Now, m, NoFault), async_log(Now, m, NoFault))

----------------------------------------------------------------------------
(* The buffer *)

\* the message is a line of no file and of no file object
Unwritten(f, hs, m) ==
    /\ \A name \in DOMAIN f : ~HasLine(f[name], m)
    /\ \A h \in DOMAIN hs : ~HasLine(hs[h].pending, m)

C25_BufferWithinMaxBufferSize ==
    max_buffer_size > 0 => buffer_pos <= max_buffer_size

\* log(m) is about to put m in the buffer
Fits(m) ==
    /\ max_buffer_size > 0
    /\ Len(buffer) + ByteLen(m) <= max_buffer_size

\* no file has lost or changed its content; a file that appears is empty
FilesKept ==
    /\ DOMAIN fs \subseteq DOMAIN fs'
    /\ \A name \in DOMAIN fs' : fs'[name] = FileData(Now, name)

(* C26 as stated: a log(m) whose message fits in the buffer returns with m    *)
(* and a newline appended to the buffer, dispatches nothing, and leaves the   *)
(* content of every file as it was.                                           *)
C26_BufferedLogLeavesFiles ==
    [][(last'.op = "log" /\ last'.err = NoErr /\ Fits(last'.msg))
       => /\ buffer' = buffer \o last'.msg \o <<NL>>
          /\ last'.sent = <<>>
          /\ FilesKept]_vars

(* C26, amended: a log(m) whose message fits in the buffer returns with m and *)
(* a newline appended to the buffer and dispatches nothing; the content of    *)
(* every file is as it was, unless the slot pool was empty and the write mode *)
(* truncates on open (w, w+): then the call, opening the slots, leaves every  *)
(* configured file empty and the other files as they were.                    *)
C26_BufferedLogLeavesFilesUnlessTruncating ==
    [][(last'.op = "log" /\ last'.err = NoErr /\ Fits(last'.msg))
       => /\ buffer' = buffer \o last'.msg \o <<NL>>
          /\ last'.sent = <<>>
          /\ IF DOMAIN temp_sync_pool # {} \/ ~Truncates(write_mode)
             THEN FilesKept
             ELSE /\ DOMAIN fs \subseteq DOMAIN fs'
                  /\ \A name \in DOMAIN fs' :
                        fs'[name] = IF \E q \in Configured : name = Live(q)
                                    THEN <<>> ELSE FileData(Now, name)]_vars

\* mode w: a line is in the file, the slot is open, and the next message is
\* only buffered
C26_Witness ==
    /\ write_mode = "w" /\ max_buffer_size = SmallBuffer /\ use_write_flush
    /\ last.op = "log" /\ last.err = NoErr /\ last.after = "log"
    /\ last.msg = <<"a">> /\ last.sent = <<>>
    /\ buffer = <<"a", NL>>
    /\ Content(1) = <<"c", NL>>
    /\ DOMAIN temp_sync_pool = {1}

\* path p has taken the text once: one attempt, and the file of p is what the
\* path held, or nothing if the write rotated it, followed by the text
WrittenOnce(p, text) ==
    /\ p \in DOMAIN last'.attempts /\ last'.attempts[p] = 1
    /\ Live(p) \in DOMAIN fs'
    /\ fs'[Live(p)] = (IF p \in last'.rotated THEN <<>>
                       ELSE Logical(fs, handles, temp_sync_pool, p))
                      \o text \o <<NL>>

\* buffer_force_flush() called again in the state just reached
Again == (buffer_force_flush(Now, NoFault))'

(* C27: a buffer_force_flush() that returns leaves the buffer empty whatever  *)
(* it held, has dispatched what the buffer held (stripped) once to every      *)
(* configured path, and a buffer_force_flush() that follows at once changes   *)
(* no file and dispatches nothing.                                            *)
C27_BufferForceFlushDrains ==
    [][(last'.op = "buffer_force_flush" /\ last'.err = NoErr)
       => /\ buffer' = <<>> /\ buffer_pos' = 0
          /\ last'.sent = IF Strip(buffer) = <<>> THEN <<>> ELSE <<Strip(buffer)>>
          /\ Strip(buffer) # <<>>
                => \A p \in Configured : WrittenOnce(p, Strip(buffer))
          /\ Again.err = NoErr /\ Again.sent = <<>>
          /\ Again.fs = fs' /\ Again.handles = handles']_vars

\* two buffered messages went to both paths in one piece, the second flush
\* that followed changed nothing
C27_Witness ==
    /\ last.op = "buffer_force_flush" /\ last.after = "buffer_force_flush"
    /\ last.err = NoErr /\ last.sent = <<>>
    /\ accepted = <<<<"a">>, <<"b", "b">>>>
    /\ buffer = <<>>
    /\ \A p \in {1, 2} : p \in Configured /\ Content(p) = <<"a", NL, "b", "b", NL>>

(* C28: when buffer_force_flush() or writer_force_flush() has returned, no    *)
(* open file object of the slot pool holds unwritten data, so what each path  *)
(* has been handed is in its file, also with use_write_flush off.             *)
C28_ForceFlushLeavesNothingPending ==
    (last.op \in {"buffer_force_flush", "writer_force_flush"} /\ last.err = NoErr)
    => /\ \A p \in DOMAIN temp_sync_pool :
             \/ handles[temp_sync_pool[p]].closed
             \/ handles[temp_sync_pool[p]].pending = <<>>
       /\ \A p \in Configured :
             Logical(fs, handles, temp_sync_pool, p) = Content(p)

\* use_write_flush off: the line of the log call before was still in the file
\* object, writer_force_flush() put it in the file
C28_Witness ==
    /\ ~use_write_flush /\ max_buffer_size = 0
    /\ last.op = "writer_force_flush" /\ last.after = "log" /\ last.err = NoErr
    /\ nops = 2
    /\ 1 \in DOMAIN temp_sync_pool
    /\ ~handles[temp_sync_pool[1]].closed
    /\ handles[temp_sync_pool[1]].pending = <<>>
    /\ Content(1) = <<"b", "b", NL>>

\* thread t has made the size check and not yet its append, or has read the
\* buffer for a drain and not yet reset it
InsideBufferAccess(t) == threads[t].pc \in {"write", "truncate", "seek"}

\* thread u appends to the buffer in this step
Appends(u) == threads[u].pc = "write" /\ threads'[u].pc = "done"

(* C29: accesses of the buffer exclude each other: no thread appends to the   *)
(* buffer between the size check and the append of another thread's log, nor  *)
(* between the read and the reset of another thread's drain.                  *)
C29_BufferAccessExclusive ==
    [][\A t, u \in DOMAIN threads :
          (t # u /\ InsideBufferAccess(t)) => ~Appends(u)]_vars

(* Threads that all log to one path small enough to rotate: the steps of    *)
(* _write_to_file as in SpecRace, with no thread clearing the pool, so that  *)
(* a file object is closed only by a rotation.                               *)
RotateSettings ==
    {Settings(Paths(1), "a", 0, <<0, 1>>, <<0, 1>>, SmallFile, mr, 0, uwf) :
        mr \in {0, 1}, uwf \in BOOLEAN}

InitRotate ==
    /\ \E s \in RotateSettings : Constructed(s, 4)
    /\ threads = [t \in 1..NumRacers |-> [Racer(t) EXCEPT !.pc = "log"]]

NextRotate ==
    \E t \in 1..NumRacers :
        \/ R_Ensure(t)
        \/ R_InitNext(t)
        \/ R_InitOpen(t)
        \/ R_InitStore(t)
        \/ R_Check(t)
        \/ R_Rotate(t)
        \/ R_Reinit(t)
        \/ R_Get(t)
        \/ R_Open(t)
        \/ R_WriteFile(t)

SpecRotate == InitRotate /\ [][NextRotate]_vars

\* thread t has checked the size of its path and not yet written
InsideWrite(t) == threads[t].pc \in {"rotate", "reinit", "get", "open", "write"}

\* thread u rotates path p or writes to it in this step
RotatesOrWrites(u, p) ==
    /\ threads[u].pc \in {"rotate", "write"}
    /\ Head(threads[u].todo) = p
    /\ threads'[u] # threads[u]

\* thread t attempts its write on a file object that is closed
WritesClosed(t) ==
    /\ threads[t].pc = "write"
    /\ threads'[t] # threads[t]
    /\ handles[threads[t].file].closed

(* C30: rotation and write of one path do not interleave: no thread attempts  *)
(* a write on a file object that a rotation has closed, and between a         *)
(* thread's size check and its write no other thread rotates the same path or *)
(* writes to it.                                                              *)
C30_RotationAndWriteNotInterleaved ==
    [][\A t \in DOMAIN threads :
          /\ ~WritesClosed(t)
          /\ InsideWrite(t)
                => \A u \in DOMAIN threads \ {t} :
                      ~RotatesOrWrites(u, Head(threads[t].todo))]_vars

(* Handlers whose files rotate at once (max_file_size 0) or after a line.     *)
SizeSettings ==
    {Settings(Paths(n), "a", 0, <<0, 1>>, <<0, 1>>, mfs, mr, 0, uwf) :
        n \in {1, 2}, mfs \in {0, SmallFile}, mr \in {0, 1}, uwf \in BOOLEAN}

InitSize == \E s \in SizeSettings : Construct(s, 4)

NextSize ==
    \/ \E m \in Messages : Log(m, NoFault)
    \/ WriterForceFlush
    \/ ClearSyncPool

SpecSize == InitSize /\ [][NextSize]_vars

\* the rotated siblings of path p are in w what they are now
SiblingsKept(w, p) ==
    \A i \in 1..(MaxRotation + 1) :
        /\ Rotated(p, i) \in DOMAIN w.fs <=> Rotated(p, i) \in DOMAIN fs
        /\ Rotated(p, i) \in DOMAIN fs => w.fs[Rotated(p, i)] = fs[Rotated(p, i)]

(* C31: in every reachable state, writing a message to a configured path      *)
(* rotates the path first exactly if the path exists and the size of its file *)
(* plus the bytes of the message is greater than max_file_size; a write that  *)
(* does not rotate creates, renames and changes no rotated sibling.           *)
C31_RotatesIffOverMaxFileSize ==
    \A p \in Configured : \A m \in Messages :
        /\ p \in _write_to_file(Now, p, m, NoFault).rotated
              <=> /\ Live(p) \in DOMAIN fs
                  /\ Len(fs[Live(p)]) + Len(m) > max_file_size
        /\ p \notin _write_to_file(Now, p, m, NoFault).rotated
              => SiblingsKept(_write_to_file(Now, p, m, NoFault), p)

\* max_file_size 0: the second write found the file of the first and rotated
\* it into sibling _1
C31_Witness ==
    /\ max_file_size = 0 /\ max_rotation = 1 /\ use_write_flush
    /\ last.op = "log" /\ last.after = "log" /\ last.err = NoErr
    /\ 1 \in last.rotated
    /\ Rotated(1, 1) \in DOMAIN fs /\ fs[Rotated(1, 1)] # <<>>
    /\ Content(1) = <<"a", NL>>

(* Handlers whose rotations can fail: in the close() of the slot's file       *)
(* object or in the first step on the file system.                            *)
RotationFaults == [path : {1, 2}, n : {1}, at : {"close", "rename"}]

FailSettings ==
    {Settings(Paths(n), "a", 0, <<0, 1>>, <<0, 1>>, mfs, mr, 0, uwf) :
        n \in {1, 2}, mfs \in {0, SmallFile}, mr \in {0, 1}, uwf \in BOOLEAN}

InitFail == \E s \in FailSettings : Construct(s, 4)

NextFail ==
    \/ \E m \in Messages : \E fault \in RotationFaults \cup {NoFault} : Log(m, fault)
    \/ WriterForceFlush

SpecFail == InitFail /\ [][NextFail]_vars

\* in w, path p has no slot and no file object open on it is left
Evicted(w, p) ==
    /\ p \notin DOMAIN w.pool
    /\ \A h \in DOMAIN w.handles :
          w.handles[h].name = Live(p) => w.handles[h].closed

(* C32: in every reachable state, a write whose rotation fails, in whatever   *)
(* step, raises the rotation error, which log raises as its write error, and  *)
(* leaves the path evicted: not in the slot pool, no file object open on it.  *)
C32_FailedRotationEvictsSlot ==
    \A p \in Configured : \A m \in Messages :
        \A fault \in {f \in RotationFaults : f.path = p} :
            /\ log(Now, m, fault).err \in {NoErr, "FileHandlerWriteError"}
            /\ _write_to_file(Now, p, m, fault).err = "FileHandleRotateError"
                  => Evicted(_write_to_file(Now, p, m, fault), p)

(* Handlers with path counts on both sides of the two limits of the dispatch. *)
PathCounts == {1, BatchLimit, BatchLimit + 1, GcLimit, GcLimit + 1}

DispatchSettings ==
    {Settings(Paths(n), "a", 0, <<0, 1>>, <<0, 1>>, BigFile, 0, 0, uwf) :
        n \in PathCounts, uwf \in BOOLEAN}

InitDispatch == \E s \in DispatchSettings : Construct(s, 4)

NextDispatch ==
    \/ Log(<<"a">>, NoFault)
    \/ AsyncLog(<<"b", "b">>, NoFault)

SpecDispatch == InitDispatch /\ [][NextDispatch]_vars

(* C33: a dispatch of log or async_log to n paths takes the direct loop for   *)
(* n <= 50, the batches of batcher for 50 < n <= 1000, and the batches of     *)
(* batcher_with_gcmanager for n > 1000.                                       *)
C33_DispatchModeByPathCount ==
    (last.op \in {"log", "async_log"} /\ last.sent # <<>>)
    => last.via = IF Len(file_paths) <= BatchLimit THEN "loop"
                  ELSE IF Len(file_paths) <= GcLimit THEN "batcher"
                  ELSE "batcher_with_gcmanager"

(* Handlers with more than 50 paths, on machines with few and many cores.     *)
MaxBatched == 54

BatchedCounts == (BatchLimit + 1)..MaxBatched \cup {GcLimit - 1, GcLimit, GcLimit + 1}

CpuCounts == {1, 2, 4, 64}

BatchSettings ==
    {Settings(Paths(n), "a", 0, <<0, 1>>, <<0, 1>>, BigFile, 0, 0, uwf) :
        n \in BatchedCounts, uwf \in BOOLEAN}

InitBatch == \E s \in BatchSettings : \E cpus \in CpuCounts : Construct(s, cpus)

NextBatch ==
    \/ Log(<<"a">>, NoFault)
    \/ AsyncLog(<<"b", "b">>, NoFault)

SpecBatch == InitBatch /\ [][NextBatch]_vars

\* the batches one after the other
RECURSIVE Flatten(_)
Flatten(batches) ==
    IF batches = <<>> THEN <<>>
    ELSE IF Len(batches) = 1 THEN Head(batches)
    ELSE Flatten(SubSeq(batches, 1, Len(batches) \div 2))
         \o Flatten(SubSeq(batches, Len(batches) \div 2 + 1, Len(batches)))

\* the lines of the messages, in the order given
RECURSIVE LinesOf(_)
LinesOf(messages) ==
    IF messages = <<>> THEN <<>>
    ELSE Head(messages) \o <<NL>> \o LinesOf(Tail(messages))

(* C34: for a handler with more than 50 paths the batches of a dispatch are   *)
(* a partition of the path list: none is empty and, one after the other, they *)
(* are the list (each path in one batch, order kept); and every dispatch that *)
(* returned has written its message once to every configured path.            *)
C34_BatchesPartitionPaths ==
    Len(file_paths) > BatchLimit
    => /\ \A i \in 1..Len(batcher(file_paths, -1)) : batcher(file_paths, -1)[i] # <<>>
       /\ Flatten(batcher(file_paths, -1)) = file_paths
       /\ Len(accepted) = nops
             => \A p \in Configured :
                   Logical(fs, handles, temp_sync_pool, p) = LinesOf(accepted)

\* 53 paths on two cores: 27 batches, the last of one path; two dispatches
\* have put their lines in the last path
C34_Witness ==
    /\ Len(file_paths) = BatchLimit + 3 /\ cpu_count = 2
    /\ Len(batcher(file_paths, -1)) = 27
    /\ Len(batcher(file_paths, -1)[27]) = 1
    /\ last.op = "async_log" /\ last.after = "log" /\ last.err = NoErr
    /\ last.via = "batcher"
    /\ Logical(fs, handles, temp_sync_pool, BatchLimit + 3) = <<"a", NL, "b", "b", NL>>

(* C35: async_log and the exit of an async scope execute no file operation    *)
(* on the thread of their caller: what they create, open, write, flush or     *)
(* close is done by threads of the worker pool.                               *)
C35_AsyncApiNoFileOpsOnCaller ==
    last.op \in {"async_log", "__aexit__"} => ~last.caller

(* C36: retrying does not duplicate data: whatever attempts of a dispatch     *)
(* fail, in the write or in the flush after it, and whether the dispatch      *)
(* returns or gives up, each path grows by at most one line of the message.   *)
C36_RetryNeverDuplicates ==
    [][(last'.op \in WriteOps /\ Len(last'.sent) = 1)
       => \A p \in Configured :
             Len(Logical(fs', handles', temp_sync_pool', p))
                <= Len(Logical(fs, handles, temp_sync_pool, p))
                   + Len(last'.sent[1]) + 1]_vars

(* C37: in every reachable state every path with a slot in the pool is a      *)
(* configured path: once the path list has been replaced, no file object of   *)
(* a path that is no longer configured stays open in the pool.                *)
C37_SlotsOnlyForConfiguredPaths ==
    \A p \in DOMAIN temp_sync_pool :
        handles[temp_sync_pool[p]].closed \/ p \in Configured

(* C38: config and reset are all or nothing: a call that raises has changed   *)
(* no configuration field, the fields applied before the invalid one          *)
(* included.                                                                  *)
C38_ConfigAllOrNothing ==
    [][(last'.op \in {"config", "config_dict", "reset"} /\ last'.err # NoErr)
       => config' = config]_vars

----------------------------------------------------------------------------
(* The handler's lock, a threading.Lock, made explicit.  Callers are inside  *)
(* log, buffer_force_flush and clear_sync_pool at once; a step is a          *)
(* statement outside the lock, the acquisition of the lock, or the body of   *)
(* one "with self._lock" block together with its exit.  Any write, flush,    *)
(* close or rename may fail.                                                 *)

NumCallers == 2

Calls == {"log", "buffer_force_flush", "clear_sync_pool"}

Caller(t, op) ==
    [pc |-> op, msg |-> ThreadMessage(t), ret |-> <<>>, todo |-> <<>>, file |-> 0,
     lock |-> FALSE, counter |-> 0]

LockSettings ==
    {Settings(Paths(1), "a", rl, <<1, 1>>, <<0, 1>>, mfs, 1, mbs, TRUE) :
        rl \in {0, 2}, mfs \in {SmallFile, BigFile}, mbs \in {0, TinyBuffer}}

LockFaults == {NoFault} \cup [path : {1}, n : {1}, at : {"write", "flush", "close", "rename"}]

InitLock ==
    /\ \E s \in LockSettings : Constructed(s, 4)
    /\ \E ops \in [1..NumCallers -> Calls] :
          threads = [t \in 1..NumCallers |-> Caller(t, ops[t])]

\* the lock is held by some thread
Locked == \E t \in DOMAIN threads : threads[t].lock

\* the with block that leaves the lock held when its body raised
WithExitOnSuccess(w) == w.err # NoErr

\* the exit of a with self._lock block, normal or by an exception, releases
\* the lock: whether the thread still holds it afterwards
WithExit(w) == FALSE

\* thread t has made a step that left the world w and itself as th; an
\* exception that nothing catches ends its call
Turn(t, w, th) ==
    /\ fs' = w.fs
    /\ handles' = w.handles
    /\ temp_sync_pool' = w.pool
    /\ buffer' = w.buf
    /\ buffer_pos' = Len(w.buf)
    /\ threads' = [threads EXCEPT
                      ![t] = IF w.err # NoErr THEN [th EXCEPT !.pc = "raised"] ELSE th]
    /\ UNCHANGED <<config, threadpool, pools, cpu_count, last, accepted, nops>>

\* the path the thread is at
Path(t) == Head(threads[t].todo)

\* the blocks under the lock: where a thread waits for it, and the body it
\* enters with it
Body ==
    [init_lock |-> "init_store", rotate_lock |-> "rotate_body",
     reinit_lock |-> "reinit_body", open_lock |-> "open_body",
     attempt_lock |-> "attempt", flush_lock |-> "flush_body", wipe_lock |-> "wipe"]

\* with self._lock: the lock is acquired once no thread holds it
L_Acquire(t) ==
    /\ threads[t].pc \in DOMAIN Body
    /\ ~Locked
    /\ Turn(t, Now, [threads[t] EXCEPT !.pc = Body[threads[t].pc], !.lock = TRUE])

\* log: self._ensure_sync_pool()
L_Ensure(t) ==
    /\ At(t, "log")
    /\ Turn(t, Now, [threads[t] EXCEPT
                        !.pc = IF DOMAIN temp_sync_pool = {} THEN "init" ELSE "buffer",
                        !.todo = file_paths])

\* _init_sync_pool: the next path of the loop; if path in self._temp_sync_pool
L_InitNext(t) ==
    /\ At(t, "init")
    /\ Turn(t, Now,
            IF threads[t].todo = <<>> THEN [threads[t] EXCEPT !.pc = "buffer"]
            ELSE IF Path(t) \in DOMAIN temp_sync_pool
                 THEN [threads[t] EXCEPT !.todo = Tail(@)]
            ELSE [threads[t] EXCEPT !.pc = "init_open"])

\* _init_sync_pool: self._create_file(path); file = open(path, ...)
L_InitOpen(t) ==
    /\ At(t, "init_open")
    /\ Turn(t, Open(_create_file(Now, Path(t)), Path(t), write_mode),
            [threads[t] EXCEPT !.pc = "init_lock", !.file = Len(handles) + 1])

\* _init_sync_pool: with self._lock: self._temp_sync_pool[path] = file
L_InitStore(t) ==
    /\ At(t, "init_store")
    /\ Turn(t, [Now EXCEPT !.pool = Put(@, Path(t), threads[t].file)],
            [threads[t] EXCEPT !.pc = "init", !.todo = Tail(@), !.file = 0,
                               !.lock = WithExit(Now)])

\* log: the message goes to the buffer, and what the buffer hands back, or
\* the message itself on a handler without buffer, goes to _writer_handler
L_Buffer(t) ==
    /\ At(t, "buffer")
    /\ IF max_buffer_size > 0
       THEN Turn(t, _write_to_buffer(Now, threads[t].msg),
                 [threads[t] EXCEPT
                     !.pc = IF _write_to_buffer(Now, threads[t].msg).ret # <<>>
                            THEN "check" ELSE "done",
                     !.ret = _write_to_buffer(Now, threads[t].msg).ret,
                     !.todo = file_paths])
       ELSE Turn(t, Now, [threads[t] EXCEPT !.pc = "check", !.ret = threads[t].msg,
                                            !.todo = file_paths])

\* _write_to_file: if self._check_file_size(message, path)
L_Check(t) ==
    /\ At(t, "check")
    /\ Turn(t, Now, [threads[t] EXCEPT
                        !.pc = IF _check_file_size(Now, threads[t].ret, Path(t))
                               THEN "recheck" ELSE "get",
                        !.counter = 0])

\* _rotate_file: if not self._check_file_size(message, path): return
L_Recheck(t) ==
    /\ At(t, "recheck")
    /\ Turn(t, Now, [threads[t] EXCEPT
                        !.pc = IF _check_file_size(Now, threads[t].ret, Path(t))
                               THEN "rotate_lock" ELSE "reinit_lock"])

\* _rotate_file: the block under the lock
L_Rotate(t) ==
    /\ At(t, "rotate_body")
    /\ \E fault \in LockFaults :
          Turn(t, RotateLocked(Now, Path(t), fault),
               [threads[t] EXCEPT
                   !.pc = "reinit_lock",
                   !.lock = WithExit(RotateLocked(Now, Path(t), fault))])

\* _write_to_file: with self._lock: close the path's slot and delete it
L_Reinit(t) ==
    /\ At(t, "reinit_body")
    /\ Turn(t, Evict(Now, Path(t)),
            [threads[t] EXCEPT !.pc = "get", !.lock = WithExit(Evict(Now, Path(t)))])

\* _write_to_file: file = self._temp_sync_pool.get(path); self._create_file(path)
L_Get(t) ==
    /\ At(t, "get")
    /\ IF Path(t) \in DOMAIN temp_sync_pool
       THEN Turn(t, Now, [threads[t] EXCEPT !.pc = "attempt_lock",
                                            !.file = temp_sync_pool[Path(t)]])
       ELSE Turn(t, _create_file(Now, Path(t)), [threads[t] EXCEPT !.pc = "open_lock"])

\* _write_to_file: with self._lock: file = open(...); self._temp_sync_pool[path] = file
L_Open(t) ==
    /\ At(t, "open_body")
    /\ Turn(t, StoreSlot(Open(Now, Path(t), write_mode), Path(t)),
            [threads[t] EXCEPT
                !.pc = "attempt_lock", !.file = Len(handles) + 1,
                !.lock = WithExit(StoreSlot(Open(Now, Path(t), write_mode), Path(t)))])

\* the call goes on after the write to a path: the next path, the flush of
\* buffer_force_flush, or the return
AfterPath(t) ==
    IF Len(threads[t].todo) > 1 THEN "check"
    ELSE IF threads[t].msg = <<>> THEN "flush" ELSE "done"

\* the thread after an attempt that left the world w: the write is done, or
\* the failure is counted and the loop gives up or goes on
Attempted39(t, w) ==
    IF w.err = NoErr
    THEN [threads[t] EXCEPT !.pc = AfterPath(t), !.lock = WithExit(w),
                            !.todo = Tail(@), !.file = 0]
    ELSE [threads[t] EXCEPT
             !.pc = IF RatPos(retry_delay) THEN "sleep" ELSE "attempt_lock",
             !.lock = WithExit(w), !.counter = @ + 1]

\* what the attempt raises to the caller: nothing while the loop goes on
Caught(t, w) ==
    IF w.err # NoErr /\ threads[t].counter + 1 < retry_limit
    THEN [w EXCEPT !.err = NoErr]
    ELSE Raise(w, "RuntimeError")

\* _write_to_file: with self._lock: file.write(message + "\n"); file.flush(),
\* inside "for _ in range(self.retry_limit)", or once if retry_limit is 0
L_Attempt(t) ==
    /\ At(t, "attempt")
    /\ \E fault \in LockFaults :
          Turn(t, Caught(t, Attempt(CountAttempt(Now, Path(t), threads[t].counter + 1),
                                    threads[t].file, threads[t].ret, 1, fault)),
               Attempted39(t, Attempt(CountAttempt(Now, Path(t), threads[t].counter + 1),
                                      threads[t].file, threads[t].ret, 1, fault)))

\* time.sleep(...) between two attempts
L_Sleep(t) ==
    /\ At(t, "sleep")
    /\ Turn(t, Now, [threads[t] EXCEPT !.pc = "attempt_lock"])

\* buffer_force_flush: if self._buffer is None: return; the buffer's content
\* goes to _writer_handler; then self.writer_force_flush()
L_Drain(t) ==
    /\ At(t, "buffer_force_flush")
    /\ IF max_buffer_size = 0
       THEN Turn(t, Now, [threads[t] EXCEPT !.pc = "done"])
       ELSE IF Len(buffer) > 0 /\ Strip(buffer) # <<>>
       THEN Turn(t, _get_buffer_message(Now),
                 [threads[t] EXCEPT !.pc = "check", !.ret = Strip(buffer),
                                    !.msg = <<>>, !.todo = file_paths])
       ELSE Turn(t, IF Len(buffer) > 0 THEN _get_buffer_message(Now) ELSE Now,
                 [threads[t] EXCEPT !.pc = "flush", !.msg = <<>>])

\* writer_force_flush: if not self._temp_sync_pool: return
L_Flush(t) ==
    /\ At(t, "flush")
    /\ Turn(t, Now, [threads[t] EXCEPT
                        !.pc = IF DOMAIN temp_sync_pool = {} THEN "done"
                               ELSE "flush_lock"])

\* the flush of every slot, which may fail
FlushLocked(w, fault) ==
    IF fault.at = "flush" /\ fault.n > 0 THEN Fail(w, "FileHandlerFlushError")
    ELSE Raise(FlushPaths(w, DOMAIN w.pool), "FileHandlerFlushError")

\* writer_force_flush: with self._lock: every open file is flushed
L_FlushAll(t) ==
    /\ At(t, "flush_body")
    /\ \E fault \in LockFaults :
          Turn(t, FlushLocked(Now, fault),
               [threads[t] EXCEPT !.pc = "done",
                                  !.lock = WithExit(FlushLocked(Now, fault))])

\* clear_sync_pool: if not self._temp_sync_pool: return; list(....keys())
L_Clear(t) ==
    /\ At(t, "clear_sync_pool")
    /\ Turn(t, Now,
            IF DOMAIN temp_sync_pool = {} THEN [threads[t] EXCEPT !.pc = "done"]
            ELSE [threads[t] EXCEPT !.pc = "close",
                                    !.todo = Keys(DOMAIN temp_sync_pool)])

\* clear_sync_pool: file = self._temp_sync_pool[path]; file.flush(); file.close(),
\* whose failure is logged and passed over
L_Close(t) ==
    /\ At(t, "close")
    /\ IF threads[t].todo = <<>>
       THEN Turn(t, Now, [threads[t] EXCEPT !.pc = "wipe_lock"])
       ELSE IF Path(t) \notin DOMAIN temp_sync_pool
       THEN Turn(t, Fail(Now, "FileHandlerSyncPoolCleanupError"), threads[t])
       ELSE \E fault \in LockFaults :
               Turn(t, IF CloseFails(Now, Path(t), fault)
                       THEN CloseLosing(Now, temp_sync_pool[Path(t)])
                       ELSE CloseHandle(Now, temp_sync_pool[Path(t)]),
                    [threads[t] EXCEPT !.pc = "pop"])

\* clear_sync_pool: finally: self._temp_sync_pool.pop(path, None)
L_Pop(t) ==
    /\ At(t, "pop")
    /\ Turn(t, IF Path(t) \in DOMAIN temp_sync_pool THEN DropSlot(Now, Path(t)) ELSE Now,
            [threads[t] EXCEPT !.pc = "close", !.todo = Tail(@)])

\* clear_sync_pool: with self._lock: self._temp_sync_pool.clear()
L_Wipe(t) ==
    /\ At(t, "wipe")
    /\ Turn(t, [Now EXCEPT !.pool = EmptyMap],
            [threads[t] EXCEPT !.pc = "done", !.lock = WithExit(Now)])

NextLock ==
    \E t \in 1..NumCallers :
        \/ L_Acquire(t)
        \/ L_Ensure(t)
        \/ L_InitNext(t)
        \/ L_InitOpen(t)
        \/ L_InitStore(t)
        \/ L_Buffer(t)
        \/ L_Check(t)
        \/ L_Recheck(t)
        \/ L_Rotate(t)
        \/ L_Reinit(t)
        \/ L_Get(t)
        \/ L_Open(t)
        \/ L_Attempt(t)
        \/ L_Sleep(t)
        \/ L_Drain(t)
        \/ L_Flush(t)
        \/ L_FlushAll(t)
        \/ L_Clear(t)
        \/ L_Close(t)
        \/ L_Pop(t)
        \/ L_Wipe(t)

\* a thread that can take a step is scheduled in the end
SpecLock == InitLock /\ [][NextLock]_vars /\ WF_vars(NextLock)

Returned(t) == threads[t].pc \in {"done", "raised"}

\* thread t is inside a block under the lock
InBody(t) == \E pc \in DOMAIN Body : threads[t].pc = Body[pc]

C40_ReplacedPoolsShutDown ==
    \A i \in DOMAIN pools : i # threadpool => pools[i]

====
